---------------------------- MODULE Spec2Model ----------------------------
(***************************************************************************)
(* Model of the privacy-transfer program: the proof codec and validators   *)
(* of proof_verification.rs, the byte helpers of crypto_primitives.rs, the *)
(* Fiat-Shamir transcript of merlin_transcript.rs and the ledger           *)
(* instructions of lib.rs.                                                 *)
(*                                                                         *)
(* Byte strings are sequences over 0..255 with their real lengths; the     *)
(* code's 0-based offsets are kept, so byte k of a blob is data[k + 1].    *)
(***************************************************************************)
EXTENDS Integers, Sequences, FiniteSets, TLC

VARIABLES
    \* inputs and results of the proof-verification entry points
    proof_data, amount_commitment, sender_after_commitment,
    sender_old_commitment, recipient_old_commitment, recipient_new_commitment,
    pc, extracted, parsed, verdict,
    \* the result of a second call of verify_transfer_proof on the same inputs
    verdict_again,
    \* another call on the same blob, amount and sender-after commitments:
    \* its three other commitments and its result
    other_commitments, verdict_other,
    \* one call of the range-proof validator: its record, the expected
    \* commitment and its result
    rp_proof, rp_commitment, rp_result,
    \* one call of the validity-proof validator and one of the equality-proof
    \* validator: the validity proof, the five commitments, the two results
    vp_proof, vp_commitments, vp_result, ep_result,
    \* a transcript: its messages log, the bytes the last challenge
    \* returned, whether a call panicked, the last call, the calls made
    messages, t_out, t_panicked, t_last, t_calls,
    \* the calls made on the transcript, from its construction on, each with
    \* the bytes it returned
    t_history,
    \* the ledger: the EncryptedAccount and SolEscrow of every key, and the
    \* last instruction with its outcome
    accounts, escrows, ix

verifierVars == <<proof_data, amount_commitment, sender_after_commitment,
                  sender_old_commitment, recipient_old_commitment,
                  recipient_new_commitment, pc, extracted, parsed, verdict,
                  verdict_again, other_commitments, verdict_other>>

otherCallVars == <<other_commitments, verdict_other>>

validityVars == <<vp_proof, vp_commitments, vp_result, ep_result>>

rangeVars == <<rp_proof, rp_commitment, rp_result, validityVars>>

transcriptVars == <<messages, t_out, t_panicked, t_last, t_calls, t_history>>

ledgerVars == <<accounts, escrows, ix>>

vars == <<verifierVars, rangeVars, transcriptVars, ledgerVars>>

-----------------------------------------------------------------------------
(* Byte strings *)

Zeros(N) == [i \in 1..N |-> 0]

Fill(N, b) == [i \in 1..N |-> b]

\* data[from..to) with the code's 0-based, end-exclusive slice bounds
Slice(data, from, to) == [i \in 1..(to - from) |-> data[from + i]]

-----------------------------------------------------------------------------
(* crypto_primitives.rs *)

\* a faulty variant: only the first byte is looked at
is_nonzero_point_first_byte(bytes) == bytes[1] # 0

is_nonzero_point(bytes) == bytes # Zeros(64)

is_valid_commitment_format(bytes) == is_nonzero_point(bytes)

\* result accumulates ai ^ bi over the zipped bytes; it is 0 exactly when no
\* position differs
constant_time_eq(a, b) ==
    IF Len(a) # Len(b) THEN FALSE
    ELSE LET differing == {i \in 1..Len(a) : a[i] # b[i]}
         IN  differing = {}

-----------------------------------------------------------------------------
(* proof_verification.rs: constants and results *)

MIN_PROOF_DATA_SIZE == 64

MAX_PROOF_DATA_SIZE == 10000

\* the literal of the "minimum size for a valid proof structure" check
MIN_STRUCTURE_SIZE == 512

\* the number of leading bytes the all-zero heuristic looks at
ZERO_PREFIX_LEN == 256

DEFAULT_RANGE_BITS == 64

MAX_RANGE_BITS == 64

ProofVerificationError ==
    {"DeserializationFailed", "InvalidRangeProof", "InvalidEqualityProof",
     "InvalidValidityProof", "BalanceEquationFailed", "CommitmentMismatch",
     "InvalidPoint", "InvalidProofStructure", "InvalidCommitment"}

Ok(v) == [err |-> "Ok", val |-> v]

Err(e) == [err |-> e]

IsOk(r) == r.err = "Ok"

-----------------------------------------------------------------------------
(* proof_verification.rs: extract_amount_commitment *)

\* a faulty variant: only the first half of the commitment is tested for zero
extract_amount_commitment_first_half(data) ==
    IF Len(data) < 64 THEN Err("DeserializationFailed")
    ELSE LET commitment == Slice(data, 0, 64)
         IN  IF Slice(data, 0, 32) = Zeros(32) THEN Err("InvalidCommitment")
             ELSE Ok(commitment)

extract_amount_commitment(data) ==
    IF Len(data) < 64 THEN Err("DeserializationFailed")
    ELSE LET commitment == Slice(data, 0, 64)
         IN  IF commitment = Zeros(64) THEN Err("InvalidCommitment")
             ELSE Ok(commitment)

-----------------------------------------------------------------------------
(* proof_verification.rs: deserialize_proof_data *)

\* a faulty variant: a read past the end is padded with zeros instead of failing
read_array_padded(data, offset, N) ==
    Ok([arr |-> [i \in 1..N |-> IF offset + i <= Len(data) THEN data[offset + i]
                                ELSE 0],
        offset |-> offset + N])

\* a faulty variant: the last byte of the array is left at its initial zero
read_array_short_copy(data, offset, N) ==
    IF offset + N > Len(data) THEN Err("DeserializationFailed")
    ELSE Ok([arr |-> [i \in 1..N |-> IF i < N THEN data[offset + i] ELSE 0],
             offset |-> offset + N])

\* read_array::<N>(data, &mut offset): the array and the advanced offset, or
\* DeserializationFailed when the read would run past the end
read_array(data, offset, N) ==
    IF offset + N > Len(data) THEN Err("DeserializationFailed")
    ELSE Ok([arr |-> Slice(data, offset, offset + N), offset |-> offset + N])

\* the sizes of the eight read_array calls of one range-proof record:
\* commitment, A, S, T1, T2 (64 bytes each), taux, mu, t (32 bytes each)
RangeFieldSizes == <<64, 64, 64, 64, 64, 32, 32, 32>>

\* the read_array calls of `sizes`, in order, each propagating its error (?)
RECURSIVE read_arrays(_, _, _, _)
read_arrays(data, offset, sizes, acc) ==
    IF sizes = <<>> THEN Ok([arrs |-> acc, offset |-> offset])
    ELSE LET r == read_array(data, offset, Head(sizes))
         IN  IF ~IsOk(r) THEN r
             ELSE read_arrays(data, r.val.offset, Tail(sizes),
                              Append(acc, r.val.arr))

\* the placeholder the codec stores for the unparsed inner-product proof
EmptyInnerProductProof ==
    [l |-> <<>>, r |-> <<>>, a |-> Zeros(32), b |-> Zeros(32)]

\* a faulty variant: the n byte is read but the offset is not advanced past it
range_record_n_not_consumed(data, f, off) ==
    IF \/ f[1] = Zeros(64)
       \/ f[2] = Zeros(64)
       \/ f[3] = Zeros(64)
       \/ f[6] = Zeros(32)
       \/ f[7] = Zeros(32)
       \/ f[8] = Zeros(32)
    THEN Err("InvalidRangeProof")
    ELSE Ok([proof |->
               [commitment |-> f[1], a |-> f[2], s |-> f[3],
                t1 |-> f[4], t2 |-> f[5], taux |-> f[6],
                mu |-> f[7], t |-> f[8],
                inner_product_proof |-> EmptyInnerProductProof,
                n |-> IF off < Len(data) THEN data[off + 1]
                      ELSE DEFAULT_RANGE_BITS],
             offset |-> off])

\* a faulty variant: n is not read from the blob, the default is stored
range_record_n_defaulted(data, f, off) ==
    IF \/ f[1] = Zeros(64)
       \/ f[2] = Zeros(64)
       \/ f[3] = Zeros(64)
       \/ f[6] = Zeros(32)
       \/ f[7] = Zeros(32)
       \/ f[8] = Zeros(32)
    THEN Err("InvalidRangeProof")
    ELSE Ok([proof |->
               [commitment |-> f[1], a |-> f[2], s |-> f[3],
                t1 |-> f[4], t2 |-> f[5], taux |-> f[6],
                mu |-> f[7], t |-> f[8],
                inner_product_proof |-> EmptyInnerProductProof,
                n |-> DEFAULT_RANGE_BITS],
             offset |-> off + 1])

\* a faulty variant: the codec rejects a zero T1 or T2 as well
range_record_t1_t2_checked(data, f, off) ==
    IF \E k \in 1..8 : f[k] = Zeros(Len(f[k]))
    THEN Err("InvalidRangeProof")
    ELSE Ok([proof |->
               [commitment |-> f[1], a |-> f[2], s |-> f[3],
                t1 |-> f[4], t2 |-> f[5], taux |-> f[6],
                mu |-> f[7], t |-> f[8],
                inner_product_proof |-> EmptyInnerProductProof,
                n |-> IF off < Len(data) THEN data[off + 1]
                      ELSE DEFAULT_RANGE_BITS],
             offset |-> off + 1])

\* the eight arrays f of a range-proof record, read up to offset `off`: the
\* zero checks, then n (the byte at the offset if one remains, else 64) and
\* offset += 1
range_record(data, f, off) ==
    IF \/ f[1] = Zeros(64)
       \/ f[2] = Zeros(64)
       \/ f[3] = Zeros(64)
       \/ f[6] = Zeros(32)
       \/ f[7] = Zeros(32)
       \/ f[8] = Zeros(32)
    THEN Err("InvalidRangeProof")
    ELSE Ok([proof |->
               [commitment |-> f[1], a |-> f[2], s |-> f[3],
                t1 |-> f[4], t2 |-> f[5], taux |-> f[6],
                mu |-> f[7], t |-> f[8],
                inner_product_proof |-> EmptyInnerProductProof,
                n |-> IF off < Len(data) THEN data[off + 1]
                      ELSE DEFAULT_RANGE_BITS],
             offset |-> off + 1])

\* r: what the eight read_array calls returned
range_record_of(data, r) ==
    IF ~IsOk(r) THEN r ELSE range_record(data, r.val.arrs, r.val.offset)

\* one range-proof record read at `offset`
parse_range_proof(data, offset) ==
    range_record_of(data, read_arrays(data, offset, RangeFieldSizes, <<>>))

\* a faulty variant: the codec checks R only
equality_record_s_unchecked(f, off) ==
    IF f[1] = Zeros(64)
    THEN Err("InvalidEqualityProof")
    ELSE Ok([proof |-> [r |-> f[1], s |-> f[2]], offset |-> off])

\* the arrays R (64 bytes) and s (32 bytes) of an equality-proof record
equality_record(f, off) ==
    IF f[1] = Zeros(64) \/ f[2] = Zeros(32)
    THEN Err("InvalidEqualityProof")
    ELSE Ok([proof |-> [r |-> f[1], s |-> f[2]], offset |-> off])

\* r: what the two read_array calls returned
equality_record_of(r) ==
    IF ~IsOk(r) THEN r ELSE equality_record(r.val.arrs, r.val.offset)

\* one equality-proof record read at `offset`
parse_equality_proof(data, offset) ==
    equality_record_of(read_arrays(data, offset, <<64, 32>>, <<>>))

\* a faulty variant: one zero byte in the prefix is enough
all_zeros_any(data) ==
    \E i \in 1..(IF Len(data) < ZERO_PREFIX_LEN THEN Len(data)
                 ELSE ZERO_PREFIX_LEN) : data[i] = 0

\* the first min(256, len) bytes are all zero
all_zeros(data) ==
    \A i \in 1..(IF Len(data) < ZERO_PREFIX_LEN THEN Len(data)
                 ELSE ZERO_PREFIX_LEN) : data[i] = 0

\* the end of deserialize_proof_data: req is the recipient equality record
decode_recipient_equality(amount, sender, seq, req) ==
    IF ~IsOk(req) THEN req
    ELSE Ok([amount_range_proof |-> amount,
             sender_after_range_proof |-> sender,
             validity_proof |->
                 [sender_equality_proof |-> seq,
                  recipient_equality_proof |-> req.val.proof]])

\* seq is the sender equality record; the recipient's is read next
decode_sender_equality(data, amount, sender, seq) ==
    IF ~IsOk(seq) THEN seq
    ELSE decode_recipient_equality(
             amount, sender, seq.val.proof,
             parse_equality_proof(data, seq.val.offset))

\* sender is the sender-after range record; the equality records follow
decode_sender_after(data, amount, sender) ==
    IF ~IsOk(sender) THEN sender
    ELSE decode_sender_equality(
             data, amount, sender.val.proof,
             parse_equality_proof(data, sender.val.offset))

\* amount is the amount range record; the sender-after record is read next
decode_amount(data, amount) ==
    IF ~IsOk(amount) THEN amount
    ELSE decode_sender_after(
             data, amount.val.proof,
             parse_range_proof(data, amount.val.offset))

\* a faulty variant: the 512-byte minimum of the structure is not enforced
deserialize_proof_data_no_structure_minimum(data) ==
    IF Len(data) < MIN_PROOF_DATA_SIZE THEN Err("DeserializationFailed")
    ELSE IF Len(data) > MAX_PROOF_DATA_SIZE THEN Err("DeserializationFailed")
    ELSE IF all_zeros(data) THEN Err("DeserializationFailed")
    ELSE decode_amount(data, parse_range_proof(data, 0))

deserialize_proof_data(data) ==
    IF Len(data) < MIN_PROOF_DATA_SIZE THEN Err("DeserializationFailed")
    ELSE IF Len(data) > MAX_PROOF_DATA_SIZE THEN Err("DeserializationFailed")
    ELSE IF Len(data) < MIN_STRUCTURE_SIZE THEN Err("DeserializationFailed")
    ELSE IF all_zeros(data) THEN Err("DeserializationFailed")
    ELSE decode_amount(data, parse_range_proof(data, 0))

-----------------------------------------------------------------------------
(* merlin_transcript.rs *)

\* n.to_le_bytes() truncated to k bytes, least significant first
RECURSIVE to_le_bytes(_, _)
to_le_bytes(n, k) ==
    IF k = 0 THEN <<>> ELSE <<n % 256>> \o to_le_bytes(n \div 256, k - 1)

\* (len as u64).to_le_bytes()
LenPrefix(bytes) == to_le_bytes(Len(bytes), 8)

DIGEST_LEN == 32

\* Keccak256 of the sha3 crate, which is not part of the repository: a
\* deterministic 32-byte digest of the whole input, sensitive to every
\* byte, its position and the length, standing in for the real permutation.
\* Absorb is the position-weighted sum of data[lo..hi], halved recursively.
RECURSIVE Absorb(_, _, _)
Absorb(data, lo, hi) ==
    IF lo > hi THEN 0
    ELSE IF lo = hi THEN ((data[lo] + 1) * ((lo * lo + 3 * lo + 7) % 251)) % 65521
    ELSE LET mid == (lo + hi) \div 2
         IN  (Absorb(data, lo, mid) + Absorb(data, mid + 1, hi)) % 65521

Keccak256(data) ==
    LET st == (Absorb(data, 1, Len(data)) + 7 * Len(data) + 1) % 65521
    IN  [i \in 1..DIGEST_LEN |-> (st * (2 * i + 1) + (st \div 256) + i * i) % 256]

\* b"Merlin v1.0"
MERLIN_LABEL == <<77, 101, 114, 108, 105, 110, 32, 118, 49, 46, 48>>

\* MerlinTranscript::new: the messages log after construction
transcript_new(domain_separator) == MERLIN_LABEL \o domain_separator

\* a faulty variant: label and message are appended without their lengths
append_message_unframed(msgs, label, message) == msgs \o label \o message

\* MerlinTranscript::append_message: the log after the call
append_message(msgs, label, message) ==
    msgs \o LenPrefix(label) \o label \o LenPrefix(message) \o message

append_point(msgs, label, point_bytes) ==
    append_message(msgs, label, point_bytes)

append_scalar(msgs, label, scalar_bytes) ==
    append_message(msgs, label, scalar_bytes)

\* a faulty variant: a call counter shared by every transcript of the
\* process is hashed with the log
challenge_hash_shared_counter(msgs, label) ==
    Keccak256(msgs \o <<t_calls>> \o LenPrefix(label) \o label)

\* the digest both challenge functions compute over the log and the label
challenge_hash(msgs, label) ==
    Keccak256(msgs \o LenPrefix(label) \o label)

\* a faulty variant: the length-prefixed label is appended to the log too
challenge_scalar_label_logged(msgs, label) ==
    [messages |-> msgs \o LenPrefix(label) \o label \o challenge_hash(msgs, label),
     out |-> Slice(challenge_hash(msgs, label), 0, 32),
     panicked |-> FALSE]

\* MerlinTranscript::challenge_scalar: the log after the call and the
\* returned 32 bytes
challenge_scalar(msgs, label) ==
    LET hash == challenge_hash(msgs, label)
    IN  [messages |-> msgs \o hash, out |-> Slice(hash, 0, 32),
         panicked |-> FALSE]

\* MerlinTranscript::challenge_bytes: hash[..len] panics (slice index out
\* of range) when len exceeds the 32-byte digest, after the log was extended
challenge_bytes(msgs, label, len) ==
    LET hash == challenge_hash(msgs, label)
    IN  IF len > Len(hash)
        THEN [messages |-> msgs \o hash, out |-> <<>>, panicked |-> TRUE]
        ELSE [messages |-> msgs \o hash, out |-> Slice(hash, 0, len),
              panicked |-> FALSE]

\* b"rangeproof" followed by n and m
rangeproof_domain_sep(n, m) ==
    <<114, 97, 110, 103, 101, 112, 114, 111, 111, 102>> \o <<n, m>>

-----------------------------------------------------------------------------
(* proof_verification.rs: the validators *)

\* the transcript verify_range_proof rebuilds: V, A, S, challenges y and z,
\* T1, T2, challenge x; the final log and the three discarded challenges
range_proof_transcript(proof) ==
    LET t0 == transcript_new(rangeproof_domain_sep(proof.n, 1))
        t1 == append_point(t0, <<86>>, proof.commitment)
        t2 == append_point(t1, <<65>>, proof.a)
        t3 == append_point(t2, <<83>>, proof.s)
        y  == challenge_scalar(t3, <<121>>)
        z  == challenge_scalar(y.messages, <<122>>)
        t4 == append_point(z.messages, <<84, 49>>, proof.t1)
        t5 == append_point(t4, <<84, 50>>, proof.t2)
        x  == challenge_scalar(t5, <<120>>)
    IN  [messages |-> x.messages, y |-> y.out, z |-> z.out, x |-> x.out]

\* a faulty variant: the commitment is not compared with the expected one
verify_range_proof_unbound(proof, commitment) ==
    IF ~is_valid_commitment_format(commitment) THEN "InvalidRangeProof"
    ELSE IF \/ ~is_nonzero_point(proof.a)
            \/ ~is_nonzero_point(proof.s)
            \/ ~is_nonzero_point(proof.t1)
            \/ ~is_nonzero_point(proof.t2)
    THEN "InvalidRangeProof"
    ELSE IF proof.taux = Zeros(32) \/ proof.mu = Zeros(32) \/ proof.t = Zeros(32)
    THEN "InvalidRangeProof"
    ELSE IF \/ constant_time_eq(proof.a, proof.s)
            \/ constant_time_eq(proof.t1, proof.t2)
            \/ constant_time_eq(proof.taux, proof.mu)
    THEN "InvalidRangeProof"
    ELSE IF \/ constant_time_eq(commitment, proof.a)
            \/ constant_time_eq(commitment, proof.s)
            \/ constant_time_eq(commitment, proof.t1)
            \/ constant_time_eq(commitment, proof.t2)
    THEN "InvalidRangeProof"
    ELSE IF proof.n = 0 \/ proof.n > MAX_RANGE_BITS THEN "InvalidRangeProof"
    ELSE "Ok"

\* a faulty variant: the distinctness of A/S, T1/T2 and taux/mu is not checked
verify_range_proof_no_distinctness(proof, commitment) ==
    IF ~is_valid_commitment_format(commitment) THEN "InvalidRangeProof"
    ELSE IF ~constant_time_eq(proof.commitment, commitment)
    THEN "CommitmentMismatch"
    ELSE IF \/ ~is_nonzero_point(proof.a)
            \/ ~is_nonzero_point(proof.s)
            \/ ~is_nonzero_point(proof.t1)
            \/ ~is_nonzero_point(proof.t2)
    THEN "InvalidRangeProof"
    ELSE IF proof.taux = Zeros(32) \/ proof.mu = Zeros(32) \/ proof.t = Zeros(32)
    THEN "InvalidRangeProof"
    ELSE IF \/ constant_time_eq(commitment, proof.a)
            \/ constant_time_eq(commitment, proof.s)
            \/ constant_time_eq(commitment, proof.t1)
            \/ constant_time_eq(commitment, proof.t2)
    THEN "InvalidRangeProof"
    ELSE IF proof.n = 0 \/ proof.n > MAX_RANGE_BITS THEN "InvalidRangeProof"
    ELSE "Ok"

\* a faulty variant: only n = 0 is rejected, any other range size passes
verify_range_proof_n_unbounded(proof, commitment) ==
    IF ~is_valid_commitment_format(commitment) THEN "InvalidRangeProof"
    ELSE IF ~constant_time_eq(proof.commitment, commitment)
    THEN "CommitmentMismatch"
    ELSE IF \/ ~is_nonzero_point(proof.a)
            \/ ~is_nonzero_point(proof.s)
            \/ ~is_nonzero_point(proof.t1)
            \/ ~is_nonzero_point(proof.t2)
    THEN "InvalidRangeProof"
    ELSE IF proof.taux = Zeros(32) \/ proof.mu = Zeros(32) \/ proof.t = Zeros(32)
    THEN "InvalidRangeProof"
    ELSE IF \/ constant_time_eq(proof.a, proof.s)
            \/ constant_time_eq(proof.t1, proof.t2)
            \/ constant_time_eq(proof.taux, proof.mu)
    THEN "InvalidRangeProof"
    ELSE IF \/ constant_time_eq(commitment, proof.a)
            \/ constant_time_eq(commitment, proof.s)
            \/ constant_time_eq(commitment, proof.t1)
            \/ constant_time_eq(commitment, proof.t2)
    THEN "InvalidRangeProof"
    ELSE IF proof.n = 0 THEN "InvalidRangeProof"
    ELSE "Ok"

\* a faulty variant: the expected commitment is compared after the other
\* fields have been checked
verify_range_proof_binding_last(proof, commitment) ==
    IF ~is_valid_commitment_format(commitment) THEN "InvalidRangeProof"
    ELSE IF \/ ~is_nonzero_point(proof.a)
            \/ ~is_nonzero_point(proof.s)
            \/ ~is_nonzero_point(proof.t1)
            \/ ~is_nonzero_point(proof.t2)
    THEN "InvalidRangeProof"
    ELSE IF proof.taux = Zeros(32) \/ proof.mu = Zeros(32) \/ proof.t = Zeros(32)
    THEN "InvalidRangeProof"
    ELSE IF \/ constant_time_eq(proof.a, proof.s)
            \/ constant_time_eq(proof.t1, proof.t2)
            \/ constant_time_eq(proof.taux, proof.mu)
    THEN "InvalidRangeProof"
    ELSE IF \/ constant_time_eq(commitment, proof.a)
            \/ constant_time_eq(commitment, proof.s)
            \/ constant_time_eq(commitment, proof.t1)
            \/ constant_time_eq(commitment, proof.t2)
    THEN "InvalidRangeProof"
    ELSE IF proof.n = 0 \/ proof.n > MAX_RANGE_BITS THEN "InvalidRangeProof"
    ELSE IF ~constant_time_eq(proof.commitment, commitment)
    THEN "CommitmentMismatch"
    ELSE "Ok"

verify_range_proof(proof, commitment) ==
    IF ~is_valid_commitment_format(commitment) THEN "InvalidRangeProof"
    ELSE IF ~constant_time_eq(proof.commitment, commitment)
    THEN "CommitmentMismatch"
    ELSE IF \/ ~is_nonzero_point(proof.a)
            \/ ~is_nonzero_point(proof.s)
            \/ ~is_nonzero_point(proof.t1)
            \/ ~is_nonzero_point(proof.t2)
    THEN "InvalidRangeProof"
    ELSE IF proof.taux = Zeros(32) \/ proof.mu = Zeros(32) \/ proof.t = Zeros(32)
    THEN "InvalidRangeProof"
    ELSE
    \* the challenges _y, _z, _x are derived and dropped
    LET transcript == range_proof_transcript(proof) IN
    IF \/ constant_time_eq(proof.a, proof.s)
       \/ constant_time_eq(proof.t1, proof.t2)
       \/ constant_time_eq(proof.taux, proof.mu)
    THEN "InvalidRangeProof"
    ELSE IF proof.taux = Zeros(32) \/ proof.mu = Zeros(32) \/ proof.t = Zeros(32)
    THEN "InvalidRangeProof"
    ELSE IF \/ constant_time_eq(commitment, proof.a)
            \/ constant_time_eq(commitment, proof.s)
            \/ constant_time_eq(commitment, proof.t1)
            \/ constant_time_eq(commitment, proof.t2)
    THEN "InvalidRangeProof"
    ELSE IF proof.n = 0 \/ proof.n > MAX_RANGE_BITS THEN "InvalidRangeProof"
    ELSE "Ok"

\* a faulty variant: the first half of R is not compared with s
verify_equality_proof_no_guard(proof, commitment1, commitment2) ==
    IF ~is_nonzero_point(commitment1) \/ ~is_nonzero_point(commitment2)
    THEN "InvalidEqualityProof"
    ELSE IF ~is_nonzero_point(proof.r) \/ proof.s = Zeros(32)
    THEN "InvalidEqualityProof"
    ELSE "Ok"

\* a faulty variant: only the first commitment is tested for zero
verify_equality_proof_one_commitment(proof, commitment1, commitment2) ==
    IF ~is_nonzero_point(commitment1) THEN "InvalidEqualityProof"
    ELSE IF ~is_nonzero_point(proof.r) \/ proof.s = Zeros(32)
    THEN "InvalidEqualityProof"
    ELSE IF constant_time_eq(Slice(proof.r, 0, 32), proof.s)
    THEN "InvalidEqualityProof"
    ELSE "Ok"

\* a faulty variant: two equal commitments are rejected
verify_equality_proof_distinct_commitments(proof, commitment1, commitment2) ==
    IF ~is_nonzero_point(commitment1) \/ ~is_nonzero_point(commitment2)
    THEN "InvalidEqualityProof"
    ELSE IF constant_time_eq(commitment1, commitment2)
    THEN "InvalidEqualityProof"
    ELSE IF ~is_nonzero_point(proof.r) \/ proof.s = Zeros(32)
    THEN "InvalidEqualityProof"
    ELSE IF constant_time_eq(Slice(proof.r, 0, 32), proof.s)
    THEN "InvalidEqualityProof"
    ELSE "Ok"

verify_equality_proof(proof, commitment1, commitment2) ==
    IF ~is_nonzero_point(commitment1) \/ ~is_nonzero_point(commitment2)
    THEN "InvalidEqualityProof"
    ELSE IF ~is_nonzero_point(proof.r) \/ proof.s = Zeros(32)
    THEN "InvalidEqualityProof"
    ELSE LET r_first_32 == Slice(proof.r, 0, 32)
         IN  IF constant_time_eq(r_first_32, proof.s)
             THEN "InvalidEqualityProof"
             ELSE "Ok"

\* a faulty variant: a zero commitment is reported as InvalidPoint
verify_validity_proof_invalid_point(proof, sender_old, amount, sender_new, recipient_old, recipient_new) ==
    IF \/ ~is_nonzero_point(sender_old)
       \/ ~is_nonzero_point(amount)
       \/ ~is_nonzero_point(sender_new)
       \/ ~is_nonzero_point(recipient_old)
       \/ ~is_nonzero_point(recipient_new)
    THEN "InvalidPoint"
    ELSE IF verify_equality_proof(proof.sender_equality_proof,
                                  sender_old, sender_new) # "Ok"
    THEN "InvalidEqualityProof"
    ELSE verify_equality_proof(proof.recipient_equality_proof,
                               recipient_old, recipient_new)

\* a faulty variant: the equality proofs are checked before the commitments
verify_validity_proof_equality_first(proof, sender_old, amount, sender_new, recipient_old, recipient_new) ==
    IF verify_equality_proof(proof.sender_equality_proof,
                             sender_old, sender_new) # "Ok"
    THEN "InvalidEqualityProof"
    ELSE IF verify_equality_proof(proof.recipient_equality_proof,
                                  recipient_old, recipient_new) # "Ok"
    THEN "InvalidEqualityProof"
    ELSE IF \/ ~is_nonzero_point(sender_old)
            \/ ~is_nonzero_point(amount)
            \/ ~is_nonzero_point(sender_new)
            \/ ~is_nonzero_point(recipient_old)
            \/ ~is_nonzero_point(recipient_new)
    THEN "InvalidValidityProof"
    ELSE "Ok"

verify_validity_proof(proof, sender_old, amount, sender_new, recipient_old, recipient_new) ==
    IF \/ ~is_nonzero_point(sender_old)
       \/ ~is_nonzero_point(amount)
       \/ ~is_nonzero_point(sender_new)
       \/ ~is_nonzero_point(recipient_old)
       \/ ~is_nonzero_point(recipient_new)
    THEN "InvalidValidityProof"
    ELSE
    LET se == verify_equality_proof(proof.sender_equality_proof,
                                    sender_old, sender_new) IN
    IF se # "Ok" THEN se ELSE
    LET re == verify_equality_proof(proof.recipient_equality_proof,
                                    recipient_old, recipient_new) IN
    IF re # "Ok" THEN re ELSE "Ok"

\* a faulty variant: the validity check runs before the two range checks
check_transfer_proof_validity_first(d, amount, sender_after, sender_old, recipient_old, recipient_new) ==
    IF ~IsOk(d) THEN [stage |-> "Decode", result |-> d.err] ELSE
    LET proof == d.val
        v == verify_validity_proof(proof.validity_proof, sender_old, amount,
                                   sender_after, recipient_old, recipient_new) IN
    IF v # "Ok" THEN [stage |-> "ValidityCheck", result |-> v] ELSE
    LET ra == verify_range_proof(proof.amount_range_proof, amount) IN
    IF ra # "Ok" THEN [stage |-> "RangeCheckAmount", result |-> ra] ELSE
    LET rs == verify_range_proof(proof.sender_after_range_proof, sender_after) IN
    IF rs # "Ok" THEN [stage |-> "RangeCheckSenderAfter", result |-> rs] ELSE
    IF ~constant_time_eq(proof.amount_range_proof.commitment, amount)
    THEN [stage |-> "BindingCheck", result |-> "CommitmentMismatch"] ELSE
    IF ~constant_time_eq(proof.sender_after_range_proof.commitment, sender_after)
    THEN [stage |-> "BindingCheck", result |-> "CommitmentMismatch"] ELSE
    [stage |-> "Done", result |-> "Ok"]

\* a faulty variant: the two commitments are compared before the range
\* proofs are checked
check_transfer_proof_binding_first(d, amount, sender_after, sender_old, recipient_old, recipient_new) ==
    IF ~IsOk(d) THEN [stage |-> "Decode", result |-> d.err] ELSE
    IF ~constant_time_eq(d.val.amount_range_proof.commitment, amount)
    THEN [stage |-> "BindingCheck", result |-> "CommitmentMismatch"] ELSE
    IF ~constant_time_eq(d.val.sender_after_range_proof.commitment, sender_after)
    THEN [stage |-> "BindingCheck", result |-> "CommitmentMismatch"] ELSE
    IF verify_range_proof(d.val.amount_range_proof, amount) # "Ok"
    THEN [stage |-> "RangeCheckAmount",
          result |-> verify_range_proof(d.val.amount_range_proof, amount)] ELSE
    IF verify_range_proof(d.val.sender_after_range_proof, sender_after) # "Ok"
    THEN [stage |-> "RangeCheckSenderAfter",
          result |-> verify_range_proof(d.val.sender_after_range_proof,
                                        sender_after)] ELSE
    IF verify_validity_proof(d.val.validity_proof, sender_old, amount,
                             sender_after, recipient_old, recipient_new) # "Ok"
    THEN [stage |-> "ValidityCheck",
          result |-> verify_validity_proof(d.val.validity_proof, sender_old,
                                           amount, sender_after, recipient_old,
                                           recipient_new)] ELSE
    [stage |-> "Done", result |-> "Ok"]

\* the checks verify_transfer_proof runs on the decoded proof d, with the
\* pipeline stage that produced the result
check_transfer_proof(d, amount, sender_after, sender_old, recipient_old, recipient_new) ==
    IF ~IsOk(d) THEN [stage |-> "Decode", result |-> d.err] ELSE
    LET proof == d.val
        ra == verify_range_proof(proof.amount_range_proof, amount) IN
    IF ra # "Ok" THEN [stage |-> "RangeCheckAmount", result |-> ra] ELSE
    LET rs == verify_range_proof(proof.sender_after_range_proof, sender_after) IN
    IF rs # "Ok" THEN [stage |-> "RangeCheckSenderAfter", result |-> rs] ELSE
    LET v == verify_validity_proof(proof.validity_proof, sender_old, amount,
                                   sender_after, recipient_old, recipient_new) IN
    IF v # "Ok" THEN [stage |-> "ValidityCheck", result |-> v] ELSE
    IF ~constant_time_eq(proof.amount_range_proof.commitment, amount)
    THEN [stage |-> "BindingCheck", result |-> "CommitmentMismatch"] ELSE
    IF ~constant_time_eq(proof.sender_after_range_proof.commitment, sender_after)
    THEN [stage |-> "BindingCheck", result |-> "CommitmentMismatch"] ELSE
    [stage |-> "Done", result |-> "Ok"]

\* the result of verify_transfer_proof together with the pipeline stage
\* that produced it
transfer_proof_trace(data, amount, sender_after, sender_old, recipient_old, recipient_new) ==
    check_transfer_proof(deserialize_proof_data(data), amount, sender_after,
                         sender_old, recipient_old, recipient_new)

\* a faulty variant: the first call leaves a mark behind, and a later call
\* is rejected as a repetition
verify_transfer_proof_once(data, amount, sender_after, sender_old, recipient_old, recipient_new) ==
    IF verdict # "Pending" THEN "DeserializationFailed"
    ELSE transfer_proof_trace(data, amount, sender_after, sender_old,
                              recipient_old, recipient_new).result

verify_transfer_proof(data, amount, sender_after, sender_old, recipient_old, recipient_new) ==
    transfer_proof_trace(data, amount, sender_after, sender_old,
                         recipient_old, recipient_new).result

-----------------------------------------------------------------------------
(* Inputs of the verifier: proof blobs and commitments *)

\* The blobs are laid out in 22 slots in the order the codec reads them:
\* slots 1..8 the arrays of the amount record, 9 its n byte, 10..17 and 18
\* the sender-after record, 19/20 and 21/22 R and s of the two equality
\* records.  A slot's content <<fill, last>> is `fill` repeated with `last`
\* as its final byte.
SlotSizes ==
    RangeFieldSizes \o <<1>> \o RangeFieldSizes \o <<1>> \o <<64, 32, 64, 32>>

Slots == 1..Len(SlotSizes)

NSlots == {9, 18}

ArraySlots == Slots \ NSlots

\* the slots of one record
SlotGroups == {1..8, 10..17, {19, 20}, {21, 22}}

RECURSIVE SumSeq(_)
SumSeq(q) == IF q = <<>> THEN 0 ELSE Head(q) + SumSeq(Tail(q))

\* the bytes the fixed layout occupies
LayoutSize == SumSeq(SlotSizes)

\* the 0-based offset of a slot
SlotOffset(k) == SumSeq(SubSeq(SlotSizes, 1, k - 1))

SlotBytes(size, c) == [i \in 1..size |-> IF i = size THEN c[2] ELSE c[1]]

RECURSIVE ConcatSlots(_, _)
ConcatSlots(content, k) ==
    IF k > Len(SlotSizes) THEN <<>>
    ELSE SlotBytes(SlotSizes[k], content[k]) \o ConcatSlots(content, k + 1)

\* the blob of `len` bytes with the given slot contents, cut short or padded
\* with `pad` bytes
Blob(content, pad, len) ==
    LET full == ConcatSlots(content, 1)
    IN  IF len <= Len(full) THEN SubSeq(full, 1, len)
        ELSE full \o Fill(len - Len(full), pad)

\* every array slot a distinct non-zero pattern, n = 64 in both records
DistinctContent == [k \in Slots |-> IF k \in NSlots THEN <<64, 64>> ELSE <<k, k>>]

\* bytes [0,64) set to 0x01, every other byte zero
OnesPrefixContent == [k \in Slots |-> IF k = 1 THEN <<1, 1>> ELSE <<0, 0>>]

ZeroContent == [k \in Slots |-> <<0, 0>>]

\* the values tried for an n byte besides 64
NValues == {0, 1, 65, 255}

\* `content` with one slot changed: zeroed, zero but for its last byte,
\* a copy of another slot of its record, or (an n slot) another value
Variants(content) ==
    {content}
    \cup {[content EXCEPT ![k] = <<0, 0>>] : k \in ArraySlots}
    \cup {[content EXCEPT ![k] = <<0, 200>>] : k \in ArraySlots}
    \cup UNION {UNION {{[content EXCEPT ![k] = content[j]] : j \in g \ {k}}
                       : k \in g} : g \in SlotGroups}
    \cup {[content EXCEPT ![k] = <<v, v>>] : k \in NSlots, v \in NValues}

\* the few contents combined with every length and every choice of commitments
CoreContents ==
    {DistinctContent, OnesPrefixContent, ZeroContent}
    \cup {[DistinctContent EXCEPT ![k] = <<0, 0>>] : k \in {2, 5, 17, 20, 21}}
    \cup {[DistinctContent EXCEPT ![k] = DistinctContent[j]]
             : <<k, j>> \in {<<2, 3>>, <<13, 14>>, <<20, 19>>}}
    \cup {[DistinctContent EXCEPT ![9] = <<0, 0>>]}

\* lengths around every threshold of the codec
Lengths ==
    {0, 63, 64, 255, 256, 511, 512, 600, 833, 834, 929, 930, 1000,
     LayoutSize - 1, LayoutSize, LayoutSize + 1, 1600,
     MAX_PROOF_DATA_SIZE, MAX_PROOF_DATA_SIZE + 1}

\* the number of commitment values, besides zero and the embedded one, a
\* caller may supply
MaxOther == 2

OtherCommitments == {Fill(64, b) : b \in 1..MaxOther}

\* the blob's bytes [from, from+64) when it has them
Embedded(data, from) ==
    IF Len(data) >= from + 64 THEN {Slice(data, from, from + 64)} ELSE {}

\* the byte that pads a blob beyond the layout: zero when its last slot is
PadOf(content) == IF content[22] = <<0, 0>> THEN 0 ELSE 23

-----------------------------------------------------------------------------
(* The parts of the state a specification leaves idle *)

Pending == [err |-> "Pending"]

VerifierIdle ==
    /\ proof_data = <<>>
    /\ amount_commitment = <<>>
    /\ sender_after_commitment = <<>>
    /\ sender_old_commitment = <<>>
    /\ recipient_old_commitment = <<>>
    /\ recipient_new_commitment = <<>>
    /\ pc = "idle"
    /\ extracted = Pending
    /\ parsed = Pending
    /\ verdict = "Pending"
    /\ verdict_again = "Pending"
    /\ other_commitments = <<>>
    /\ verdict_other = "Pending"

ValidityIdle ==
    /\ vp_proof = <<>>
    /\ vp_commitments = <<>>
    /\ vp_result = "Idle"
    /\ ep_result = "Idle"

RangeIdle ==
    /\ rp_proof = <<>>
    /\ rp_commitment = <<>>
    /\ rp_result = "Idle"
    /\ ValidityIdle

TranscriptIdle ==
    /\ messages = <<>>
    /\ t_out = <<>>
    /\ t_panicked = FALSE
    /\ t_last = [op |-> "idle"]
    /\ t_calls = 0
    /\ t_history = <<>>

LedgerIdle ==
    /\ accounts = <<>>
    /\ escrows = <<>>
    /\ ix = [name |-> "idle"]

-----------------------------------------------------------------------------
(* The verifier as a state machine: a call's inputs, then the entry points *)

\* the commitments of a call that follows the ledger's convention: amount
\* and sender-after as embedded in the blob, the other three non-zero
DefaultArgs(data) ==
    /\ amount_commitment \in
          (IF Embedded(data, 0) = {} THEN {Fill(64, 1)} ELSE Embedded(data, 0))
    /\ sender_after_commitment \in
          (IF Embedded(data, SlotOffset(10)) = {} THEN {Fill(64, 10)}
           ELSE Embedded(data, SlotOffset(10)))
    /\ sender_old_commitment = Fill(64, 31)
    /\ recipient_old_commitment = Fill(64, 32)
    /\ recipient_new_commitment = Fill(64, 33)

AnyArgs(data) ==
    /\ amount_commitment \in
          {Zeros(64)} \cup OtherCommitments \cup Embedded(data, 0)
    /\ sender_after_commitment \in
          {Zeros(64)} \cup OtherCommitments \cup Embedded(data, SlotOffset(10))
    /\ sender_old_commitment \in {Zeros(64), Fill(64, 31)}
    /\ recipient_old_commitment \in {Zeros(64), Fill(64, 32)}
    /\ recipient_new_commitment \in {Zeros(64), Fill(64, 33)}

Init ==
    /\ \/ \* every single-slot variant, at the layout's length
          /\ \E base \in {DistinctContent, OnesPrefixContent, ZeroContent} :
               \E c \in Variants(base) :
                 proof_data = Blob(c, PadOf(c), LayoutSize)
          /\ DefaultArgs(proof_data)
       \/ \* every length
          /\ \E c \in CoreContents, len \in Lengths :
               proof_data = Blob(c, PadOf(c), len)
          /\ DefaultArgs(proof_data)
       \/ \* every choice of commitments
          /\ \E c \in CoreContents, len \in {1000, LayoutSize} :
               proof_data = Blob(c, PadOf(c), len)
          /\ AnyArgs(proof_data)
    /\ pc = "start"
    /\ extracted = Pending
    /\ parsed = Pending
    /\ verdict = "Pending"
    /\ verdict_again = "Pending"
    /\ other_commitments = <<>>
    /\ verdict_other = "Pending"
    /\ RangeIdle
    /\ TranscriptIdle
    /\ LedgerIdle

Inputs == <<proof_data, amount_commitment, sender_after_commitment,
            sender_old_commitment, recipient_old_commitment,
            recipient_new_commitment>>

\* the ledger's first call
ExtractAmountCommitment ==
    /\ pc = "start"
    /\ extracted' = extract_amount_commitment(proof_data)
    /\ pc' = "extracted"
    /\ UNCHANGED <<Inputs, parsed, verdict, verdict_again, otherCallVars,
                   rangeVars,
                   transcriptVars, ledgerVars>>

\* the codec alone
DeserializeProofData ==
    /\ pc = "extracted"
    /\ parsed' = deserialize_proof_data(proof_data)
    /\ pc' = "parsed"
    /\ UNCHANGED <<Inputs, extracted, verdict, verdict_again, otherCallVars,
                   rangeVars,
                   transcriptVars, ledgerVars>>

VerifyTransferProof ==
    /\ pc = "parsed"
    /\ verdict' = verify_transfer_proof(proof_data, amount_commitment,
                                        sender_after_commitment,
                                        sender_old_commitment,
                                        recipient_old_commitment,
                                        recipient_new_commitment)
    /\ pc' = "verified"
    /\ UNCHANGED <<Inputs, extracted, parsed, verdict_again, otherCallVars,
                   rangeVars,
                   transcriptVars, ledgerVars>>

\* a second call with the same blob and the same five commitments
VerifyTransferProofAgain ==
    /\ pc = "verified"
    /\ verdict_again' = verify_transfer_proof(proof_data, amount_commitment,
                                              sender_after_commitment,
                                              sender_old_commitment,
                                              recipient_old_commitment,
                                              recipient_new_commitment)
    /\ pc' = "verified_again"
    /\ UNCHANGED <<Inputs, extracted, parsed, verdict, otherCallVars, rangeVars,
                   transcriptVars, ledgerVars>>

\* the values another caller may pass in place of a non-zero commitment: a
\* value equal to the usual amount commitment, and one that is zero but for
\* its last byte
OtherNonZero == {Fill(64, 1), [i \in 1..64 |-> IF i = 64 THEN 200 ELSE 0]}

\* a commitment that is zero exactly when `commitment` is
SameZeroness(commitment) ==
    IF commitment = Zeros(64) THEN {Zeros(64)} ELSE OtherNonZero

\* a call with the same blob, amount and sender-after commitments whose other
\* three commitments are replaced by values that are zero where they were
VerifyTransferProofOtherCommitments ==
    /\ pc = "verified"
    /\ other_commitments' \in
          [sender_old : SameZeroness(sender_old_commitment),
           recipient_old : SameZeroness(recipient_old_commitment),
           recipient_new : SameZeroness(recipient_new_commitment)]
    /\ verdict_other' = verify_transfer_proof(proof_data, amount_commitment,
                                              sender_after_commitment,
                                              other_commitments'.sender_old,
                                              other_commitments'.recipient_old,
                                              other_commitments'.recipient_new)
    /\ pc' = "verified_other"
    /\ UNCHANGED <<Inputs, extracted, parsed, verdict, verdict_again, rangeVars,
                   transcriptVars, ledgerVars>>

Next ==
    \/ ExtractAmountCommitment
    \/ DeserializeProofData
    \/ VerifyTransferProof
    \/ VerifyTransferProofAgain
    \/ VerifyTransferProofOtherCommitments

Spec == Init /\ [][Next]_vars

-----------------------------------------------------------------------------
(* The range-proof validator alone: a record, an expected commitment, a call *)

\* the byte values the fields of a record are filled with
MaxFill == 5

\* a record whose fields are pairwise distinct and n = 64
DistinctRangeProof ==
    [commitment |-> Fill(64, 1), a |-> Fill(64, 2), s |-> Fill(64, 3),
     t1 |-> Fill(64, 4), t2 |-> Fill(64, 5), taux |-> Fill(32, 6),
     mu |-> Fill(32, 7), t |-> Fill(32, 8),
     inner_product_proof |-> EmptyInnerProductProof, n |-> 64]

PointFields == {"commitment", "a", "s", "t1", "t2"}

ScalarFields == {"taux", "mu", "t"}

\* all-zero, zero but for the last byte, or one byte value repeated
Patterns(N) ==
    {Zeros(N), [i \in 1..N |-> IF i = N THEN 200 ELSE 0]}
    \cup {Fill(N, b) : b \in 1..MaxFill}

\* the values a field may be overwritten with
FieldValues(f) ==
    IF f \in PointFields THEN Patterns(64)
    ELSE IF f \in ScalarFields THEN Patterns(32)
    ELSE {0, 1, 64, 65, 255}

RangeInit ==
    /\ \E f1 \in DOMAIN DistinctRangeProof \ {"inner_product_proof"},
          f2 \in DOMAIN DistinctRangeProof \ {"inner_product_proof"} :
         \E v1 \in FieldValues(f1), v2 \in FieldValues(f2) :
            rp_proof = [[DistinctRangeProof EXCEPT ![f1] = v1] EXCEPT ![f2] = v2]
    /\ rp_commitment \in Patterns(64)
    /\ rp_result = "Pending"
    /\ ValidityIdle
    /\ VerifierIdle
    /\ TranscriptIdle
    /\ LedgerIdle

VerifyRangeProof ==
    /\ rp_result = "Pending"
    /\ rp_result' = verify_range_proof(rp_proof, rp_commitment)
    /\ UNCHANGED <<rp_proof, rp_commitment, validityVars, verifierVars,
                   transcriptVars, ledgerVars>>

RangeNext == VerifyRangeProof

RangeSpec == RangeInit /\ [][RangeNext]_vars

-----------------------------------------------------------------------------
(* The validity-proof and equality-proof validators alone *)

\* the equality proofs tried: R zero, zero but for its last byte, or one
\* byte repeated; s zero or one byte repeated, equal to R[0:32] or not
EqualityProofs ==
    [r : {Zeros(64), [i \in 1..64 |-> IF i = 64 THEN 200 ELSE 0],
          Fill(64, 1), Fill(64, 2)},
     s : {Zeros(32), Fill(32, 1), Fill(32, 2)}]

\* the values tried for each of the five commitments; two commitments of a
\* call may be equal
ValidityCommitments == {Zeros(64), Fill(64, 1), Fill(64, 2)}

ValidityInit ==
    /\ vp_proof \in [sender_equality_proof : EqualityProofs,
                      recipient_equality_proof : EqualityProofs]
    /\ \/ vp_commitments \in
             [sender_old : ValidityCommitments, amount : {Zeros(64), Fill(64, 1)},
              sender_new : {Zeros(64), Fill(64, 1)},
              recipient_old : {Fill(64, 1)},
              recipient_new : {Fill(64, 1)}]
       \/ vp_commitments \in
             [sender_old : {Fill(64, 1)}, amount : {Fill(64, 1)},
              sender_new : {Fill(64, 2)},
              recipient_old : ValidityCommitments,
              recipient_new : ValidityCommitments]
    /\ vp_result = "Pending"
    /\ ep_result = "Pending"
    /\ rp_proof = <<>>
    /\ rp_commitment = <<>>
    /\ rp_result = "Idle"
    /\ VerifierIdle
    /\ TranscriptIdle
    /\ LedgerIdle

VerifyValidityProof ==
    /\ vp_result = "Pending"
    /\ vp_result' = verify_validity_proof(vp_proof, vp_commitments.sender_old,
                                          vp_commitments.amount,
                                          vp_commitments.sender_new,
                                          vp_commitments.recipient_old,
                                          vp_commitments.recipient_new)
    /\ UNCHANGED <<vp_proof, vp_commitments, ep_result, rp_proof, rp_commitment,
                   rp_result, verifierVars, transcriptVars, ledgerVars>>

\* the equality-proof validator on the sender's proof and commitments
VerifyEqualityProof ==
    /\ ep_result = "Pending"
    /\ ep_result' = verify_equality_proof(vp_proof.sender_equality_proof,
                                          vp_commitments.sender_old,
                                          vp_commitments.sender_new)
    /\ UNCHANGED <<vp_proof, vp_commitments, vp_result, rp_proof, rp_commitment,
                   rp_result, verifierVars, transcriptVars, ledgerVars>>

ValidityNext ==
    \/ VerifyValidityProof
    \/ VerifyEqualityProof

ValiditySpec == ValidityInit /\ [][ValidityNext]_vars

-----------------------------------------------------------------------------
(* The transcript as a state machine: construction, then appends and
   challenges *)

\* the calls made on one transcript
MaxCalls == 3

TLabels == {<<120>>, <<120, 120>>}

TMessages == {<<>>, <<1, 2>>}

\* the lengths asked of challenge_bytes
TLengths == {0, 32, 33}

\* an entry of t_history: a call and the bytes it returned
Recorded(call, out) == [call |-> call, out |-> out]

TranscriptInit ==
    /\ \E domain_separator \in {<<>>, rangeproof_domain_sep(64, 1)} :
          /\ messages = transcript_new(domain_separator)
          /\ t_history =
                <<Recorded([op |-> "new", domain_separator |-> domain_separator],
                           <<>>)>>
    /\ t_out = <<>>
    /\ t_panicked = FALSE
    /\ t_last = [op |-> "new"]
    /\ t_calls = 0
    /\ VerifierIdle
    /\ RangeIdle
    /\ LedgerIdle

\* a panic aborts the program: no call follows it
CanCall == ~t_panicked /\ t_calls < MaxCalls

AppendMessage ==
    /\ CanCall
    /\ \E label \in TLabels, message \in TMessages :
          /\ messages' = append_message(messages, label, message)
          /\ t_last' = [op |-> "append_message", label |-> label,
                        message |-> message, before |-> messages]
          /\ t_history' = Append(t_history,
                Recorded([op |-> "append_message", label |-> label, message |-> message],
                         <<>>))
    /\ t_calls' = t_calls + 1
    /\ UNCHANGED <<t_out, t_panicked, verifierVars, rangeVars, ledgerVars>>

AppendPoint ==
    /\ CanCall
    /\ \E label \in TLabels, point_bytes \in {Fill(64, 1)} :
          /\ messages' = append_point(messages, label, point_bytes)
          /\ t_last' = [op |-> "append_point", label |-> label,
                        message |-> point_bytes, before |-> messages]
          /\ t_history' = Append(t_history,
                Recorded([op |-> "append_point", label |-> label, message |-> point_bytes],
                         <<>>))
    /\ t_calls' = t_calls + 1
    /\ UNCHANGED <<t_out, t_panicked, verifierVars, rangeVars, ledgerVars>>

AppendScalar ==
    /\ CanCall
    /\ \E label \in TLabels, scalar_bytes \in {Fill(32, 1)} :
          /\ messages' = append_scalar(messages, label, scalar_bytes)
          /\ t_last' = [op |-> "append_scalar", label |-> label,
                        message |-> scalar_bytes, before |-> messages]
          /\ t_history' = Append(t_history,
                Recorded([op |-> "append_scalar", label |-> label, message |-> scalar_bytes],
                         <<>>))
    /\ t_calls' = t_calls + 1
    /\ UNCHANGED <<t_out, t_panicked, verifierVars, rangeVars, ledgerVars>>

ChallengeScalar ==
    /\ CanCall
    /\ \E label \in TLabels :
          LET r == challenge_scalar(messages, label)
          IN  /\ messages' = r.messages
              /\ t_out' = r.out
              /\ t_panicked' = r.panicked
              /\ t_last' = [op |-> "challenge_scalar", label |-> label,
                            before |-> messages]
              /\ t_history' = Append(t_history,
                    Recorded([op |-> "challenge_scalar", label |-> label],
                             r.out))
    /\ t_calls' = t_calls + 1
    /\ UNCHANGED <<verifierVars, rangeVars, ledgerVars>>

ChallengeBytes ==
    /\ CanCall
    /\ \E label \in TLabels, len \in TLengths :
          LET r == challenge_bytes(messages, label, len)
          IN  /\ messages' = r.messages
              /\ t_out' = r.out
              /\ t_panicked' = r.panicked
              /\ t_last' = [op |-> "challenge_bytes", label |-> label,
                            len |-> len, before |-> messages]
              /\ t_history' = Append(t_history,
                    Recorded([op |-> "challenge_bytes", label |-> label,
                              len |-> len],
                             r.out))
    /\ t_calls' = t_calls + 1
    /\ UNCHANGED <<verifierVars, rangeVars, ledgerVars>>

TranscriptNext ==
    \/ AppendMessage
    \/ AppendPoint
    \/ AppendScalar
    \/ ChallengeScalar
    \/ ChallengeBytes

TranscriptSpec == TranscriptInit /\ [][TranscriptNext]_vars

-----------------------------------------------------------------------------
(* lib.rs: the ledger instructions *)

\* transfer_constants.  MAX_AMOUNT is 1_000_000_000_000_000 in the source,
\* beyond 32-bit integers: the model counts lamports on a scale
\* that keeps MIN_AMOUNT <= MAX_AMOUNT and lets an amount exceed the cap.
MIN_AMOUNT == 1

MAX_AMOUNT == 3

\* the signers and recipients
Keys == {"alice", "bob"}

\* an account that was never initialized
NoAccount == [exists |-> FALSE]

\* the outcome of an instruction: its error code (or "Ok") and the state it
\* leaves; the runtime discards the state of a failed instruction
Outcome(err, acc, esc) ==
    [err |-> err, accounts |-> acc, escrows |-> esc,
     extract |-> "NotReached", verify |-> "NotReached"]

Fail(err) == Outcome(err, accounts, escrows)

\* the PDA bump Anchor finds for an account; its value plays no part
Bump(key) == IF key = "alice" THEN 255 ELSE 254

\* a faulty variant: the balance is stored, the version is left as it was
Updated_version_kept(account, c) ==
    [account EXCEPT !.encrypted_balance = c]

\* account.encrypted_balance = c; account.version += 1
Updated(account, c) ==
    [account EXCEPT !.encrypted_balance = c, !.version = @ + 1]

initialize_account(owner) ==
    \* #[account(init)]: the PDA must not exist yet
    IF accounts[owner].exists THEN Fail("AccountAlreadyInUse")
    ELSE Outcome("Ok",
                 [accounts EXCEPT ![owner] =
                     [exists |-> TRUE, owner |-> owner,
                      encrypted_balance |-> Zeros(64), version |-> 0,
                      bump |-> Bump(owner)]],
                 escrows)

initialize_sol_escrow(owner) ==
    IF escrows[owner].exists THEN Fail("AccountAlreadyInUse")
    ELSE Outcome("Ok", accounts,
                 [escrows EXCEPT ![owner] =
                     [exists |-> TRUE, owner |-> owner, balance |-> 0,
                      bump |-> Bump(owner)]])

deposit(owner, encrypted_commitment) ==
    \* Account<EncryptedAccount> at the owner's PDA, has_one = owner
    IF ~accounts[owner].exists THEN Fail("AccountNotInitialized")
    ELSE IF accounts[owner].owner # owner THEN Fail("Unauthorized")
    ELSE IF encrypted_commitment = Zeros(64) THEN Fail("InvalidCommitment")
    ELSE Outcome("Ok",
                 [accounts EXCEPT ![owner] = Updated(@, encrypted_commitment)],
                 escrows)

withdraw(owner, new_commitment) ==
    IF ~accounts[owner].exists THEN Fail("AccountNotInitialized")
    ELSE IF accounts[owner].owner # owner THEN Fail("Unauthorized")
    ELSE IF new_commitment = Zeros(64) THEN Fail("InvalidCommitment")
    ELSE Outcome("Ok",
                 [accounts EXCEPT ![owner] = Updated(@, new_commitment)],
                 escrows)

\* u64::checked_sub and u64::checked_add; the sums of the model stay far
\* below u64::MAX
checked_sub(a, b) == IF a < b THEN [some |-> FALSE] ELSE [some |-> TRUE, v |-> a - b]

checked_add(a, b) == [some |-> TRUE, v |-> a + b]

\* cpi_ok: whether the system program carries out the transfer from the
\* owner's wallet to the escrow PDA (the wallet holds the lamports)
deposit_sol(owner, amount, encrypted_commitment, cpi_ok) ==
    IF ~accounts[owner].exists \/ ~escrows[owner].exists
    THEN Fail("AccountNotInitialized")
    ELSE IF amount < MIN_AMOUNT THEN Fail("InvalidAmount")
    ELSE IF amount > MAX_AMOUNT THEN Fail("InvalidAmount")
    ELSE IF encrypted_commitment = Zeros(64) THEN Fail("InvalidCommitment")
    ELSE IF ~cpi_ok THEN Fail("TransferFailed")
    ELSE LET sum == checked_add(escrows[owner].balance, amount)
         IN  IF ~sum.some THEN Fail("Overflow")
             ELSE Outcome("Ok",
                    [accounts EXCEPT ![owner] = Updated(@, encrypted_commitment)],
                    [escrows EXCEPT ![owner].balance = sum.v])

\* cpi_ok: whether the transfer out of the escrow PDA is carried out
withdraw_sol(owner, amount, new_commitment, cpi_ok) ==
    IF ~accounts[owner].exists \/ ~escrows[owner].exists
    THEN Fail("AccountNotInitialized")
    ELSE IF amount < MIN_AMOUNT THEN Fail("InvalidAmount")
    ELSE IF amount > MAX_AMOUNT THEN Fail("InvalidAmount")
    ELSE IF new_commitment = Zeros(64) THEN Fail("InvalidCommitment")
    ELSE IF ~(escrows[owner].balance >= amount) THEN Fail("InsufficientBalance")
    ELSE IF ~cpi_ok THEN Fail("TransferFailed")
    ELSE LET rest == checked_sub(escrows[owner].balance, amount)
         IN  IF ~rest.some THEN Fail("Underflow")
             ELSE Outcome("Ok",
                    [accounts EXCEPT ![owner] = Updated(@, new_commitment)],
                    [escrows EXCEPT ![owner].balance = rest.v])

\* the commitments a client supplies: the zero commitment and two others
LedgerCommitments == {Zeros(64), Fill(64, 1), Fill(64, 2)}

\* a scenario-2 blob that embeds `commitment` as the sender-after commitment
ProofFor(commitment) ==
    Blob([DistinctContent EXCEPT ![1] = <<101, 101>>,
                                 ![10] = <<commitment[1], commitment[64]>>],
         23, LayoutSize)

\* the proofs a client may submit: well-formed for a sender-after
\* commitment, with a zeroed equality scalar, empty
ProofBlobs ==
    {ProofFor(Fill(64, 1)), ProofFor(Fill(64, 2)),
     Blob([DistinctContent EXCEPT ![1] = <<101, 101>>, ![10] = <<1, 1>>,
                                  ![20] = <<0, 0>>], 23, LayoutSize),
     <<>>}

\* the calls of verify_transfer_proof the instructions can make on these
\* inputs: <<proof_data, sender_new, sender_old, recipient_old, recipient_new>>
\* (a proof below the minimum size, a zero new commitment and a zero sender
\* balance are rejected before the call)
VerifyCalls ==
    {d \in ProofBlobs : Len(d) >= MIN_PROOF_DATA_SIZE}
        \X (LedgerCommitments \ {Zeros(64)})
        \X (LedgerCommitments \ {Zeros(64)})
        \X LedgerCommitments
        \X (LedgerCommitments \ {Zeros(64)})

\* extract_amount_commitment and verify_transfer_proof on each of these
\* calls, evaluated once
ProofVerdicts ==
    {[call    |-> c,
      extract |-> extract_amount_commitment(c[1]),
      verify  |-> IF IsOk(extract_amount_commitment(c[1]))
                  THEN verify_transfer_proof(
                           c[1], extract_amount_commitment(c[1]).val,
                           c[2], c[3], c[4], c[5])
                  ELSE "NotReached"] : c \in VerifyCalls}

ProofVerdict(data, sender_new, sender_old, recipient_old, recipient_new) ==
    CHOOSE p \in ProofVerdicts :
        p.call = <<data, sender_new, sender_old, recipient_old, recipient_new>>

\* a faulty variant: the recipient's account is left as it was
settle_sender_only(p, out, sender, recipient, sender_new, recipient_new) ==
    IF ~IsOk(p.extract)
    THEN [Fail("InvalidProof") EXCEPT !.extract = p.extract.err]
    ELSE IF p.verify # "Ok"
    THEN [Fail("InvalidProof") EXCEPT !.extract = "Ok", !.verify = p.verify]
    ELSE [out EXCEPT
            !.extract = "Ok", !.verify = "Ok",
            !.accounts = [accounts EXCEPT ![sender] = Updated(@, sender_new)]]

\* what a confidential transfer does with the verdict p on its proof: an
\* error of extract_amount_commitment or of verify_transfer_proof becomes
\* InvalidProof; otherwise `out`, the effects that precede the update of the
\* accounts, and the two accounts updated
settle(p, out, sender, recipient, sender_new, recipient_new) ==
    IF ~IsOk(p.extract)
    THEN [Fail("InvalidProof") EXCEPT !.extract = p.extract.err]
    ELSE IF p.verify # "Ok"
    THEN [Fail("InvalidProof") EXCEPT !.extract = "Ok", !.verify = p.verify]
    ELSE IF out.err # "Ok"
    THEN [Fail(out.err) EXCEPT !.extract = "Ok", !.verify = "Ok"]
    ELSE [out EXCEPT
            !.extract = "Ok", !.verify = "Ok",
            !.accounts =
               [[accounts EXCEPT ![sender] = Updated(@, sender_new)]
                   EXCEPT ![recipient] = Updated(@, recipient_new)]]

\* a faulty variant: the sender's balance is passed as the recipient's old
\* commitment too
verify_and_update_sender_old_twice(out, sender, recipient, sender_new, recipient_new, data) ==
    settle(ProofVerdict(data, sender_new, accounts[sender].encrypted_balance,
                        accounts[sender].encrypted_balance, recipient_new),
           out, sender, recipient, sender_new, recipient_new)

\* the proof verification both confidential transfers run on the accounts'
\* current balances, and the update of the two accounts that follows it
verify_and_update(out, sender, recipient, sender_new, recipient_new, data) ==
    settle(ProofVerdict(data, sender_new, accounts[sender].encrypted_balance,
                        accounts[recipient].encrypted_balance, recipient_new),
           out, sender, recipient, sender_new, recipient_new)

confidential_transfer(sender, recipient, sender_new, recipient_new, data) ==
    IF ~accounts[sender].exists \/ ~accounts[recipient].exists
    THEN Fail("AccountNotInitialized")
    ELSE IF accounts[sender].owner # sender THEN Fail("Unauthorized")
    ELSE IF accounts[recipient].owner # recipient THEN Fail("Unauthorized")
    ELSE IF sender = recipient THEN Fail("InvalidRecipient")
    ELSE IF data = <<>> THEN Fail("InvalidProof")
    ELSE IF Len(data) < MIN_PROOF_DATA_SIZE THEN Fail("InvalidProof")
    ELSE IF Len(data) > MAX_PROOF_DATA_SIZE THEN Fail("InvalidProof")
    ELSE IF sender_new = Zeros(64) THEN Fail("InvalidCommitment")
    ELSE IF recipient_new = Zeros(64) THEN Fail("InvalidCommitment")
    ELSE IF accounts[sender].encrypted_balance = Zeros(64)
    THEN Fail("InvalidCommitment")
    ELSE verify_and_update(Outcome("Ok", accounts, escrows),
                           sender, recipient, sender_new,
                           recipient_new, data)

\* the lamports of an escrow PDA: its rent-exempt reserve and its balance
RENT_EXEMPT == 1

EscrowLamports(key) == RENT_EXEMPT + escrows[key].balance

\* what follows the verification in confidential_sol_transfer: the lamports
\* and the balances of the two escrows
move_sol(sender, recipient, amount) ==
    LET new_sender_lamports    == checked_sub(EscrowLamports(sender), amount)
        new_recipient_lamports == checked_add(EscrowLamports(recipient), amount)
        sender_balance         == checked_sub(escrows[sender].balance, amount)
        recipient_balance      == checked_add(escrows[recipient].balance, amount)
    IN  IF ~new_sender_lamports.some THEN Fail("Underflow")
        ELSE IF ~new_recipient_lamports.some THEN Fail("Overflow")
        ELSE IF ~sender_balance.some THEN Fail("Underflow")
        ELSE IF ~recipient_balance.some THEN Fail("Overflow")
        ELSE Outcome("Ok", accounts,
                     [[escrows EXCEPT ![sender].balance = sender_balance.v]
                         EXCEPT ![recipient].balance = recipient_balance.v])

confidential_sol_transfer(sender, recipient, amount, sender_new, recipient_new, data) ==
    IF \/ ~accounts[sender].exists \/ ~accounts[recipient].exists
       \/ ~escrows[sender].exists \/ ~escrows[recipient].exists
    THEN Fail("AccountNotInitialized")
    ELSE IF sender = recipient THEN Fail("InvalidRecipient")
    ELSE IF accounts[sender].owner # sender THEN Fail("Unauthorized")
    ELSE IF accounts[recipient].owner # recipient THEN Fail("Unauthorized")
    ELSE IF amount < MIN_AMOUNT THEN Fail("InvalidAmount")
    ELSE IF amount > MAX_AMOUNT THEN Fail("InvalidAmount")
    ELSE IF sender_new = Zeros(64) THEN Fail("InvalidCommitment")
    ELSE IF recipient_new = Zeros(64) THEN Fail("InvalidCommitment")
    ELSE IF Len(data) < MIN_PROOF_DATA_SIZE THEN Fail("InvalidProof")
    ELSE IF Len(data) > MAX_PROOF_DATA_SIZE THEN Fail("InvalidProof")
    ELSE IF accounts[sender].encrypted_balance = Zeros(64)
    THEN Fail("InvalidCommitment")
    ELSE IF ~(escrows[sender].balance >= amount) THEN Fail("InsufficientBalance")
    ELSE verify_and_update(move_sol(sender, recipient, amount),
                           sender, recipient, sender_new,
                           recipient_new, data)

-----------------------------------------------------------------------------
(* The ledger as a state machine: one action per instruction *)

\* the version an account may reach
MaxVersion == 2

\* the lamports all the escrows may hold together
MaxEscrow == 1

\* the (sender_new, recipient_new) pairs of a transfer
CommitmentPairs ==
    {<<Fill(64, 1), Fill(64, 2)>>, <<Fill(64, 2), Fill(64, 1)>>,
     <<Fill(64, 1), Fill(64, 1)>>, <<Zeros(64), Fill(64, 1)>>,
     <<Fill(64, 1), Zeros(64)>>}

\* below the minimum, allowed, above the maximum
Amounts == {MIN_AMOUNT - 1, MIN_AMOUNT, MAX_AMOUNT + 1}

\* version += 1 stays within the model's bound
VersionRoom(key) == accounts[key].exists => accounts[key].version < MaxVersion

RECURSIVE EscrowTotal(_)
EscrowTotal(keys) ==
    IF keys = {} THEN 0
    ELSE LET k == CHOOSE x \in keys : TRUE
         IN  (IF escrows[k].exists THEN escrows[k].balance ELSE 0)
             + EscrowTotal(keys \ {k})

\* a deposit stays within the model's bound
EscrowRoom == EscrowTotal(Keys) < MaxEscrow

LedgerInit ==
    /\ accounts = [k \in Keys |-> NoAccount]
    /\ escrows = [k \in Keys |-> NoAccount]
    /\ ix = [name |-> "none"]
    /\ VerifierIdle
    /\ RangeIdle
    /\ TranscriptIdle

\* the runtime commits the state of a successful instruction and only that;
\* ix records the instruction, its signer and counterparty, what its proof
\* verification returned and, once it is committed, the commitments supplied
Commit(name, out, who, to, supplied) ==
    /\ accounts' = out.accounts
    /\ escrows' = out.escrows
    /\ ix' = [name |-> name, err |-> out.err, sender |-> who,
              recipient |-> to, extract |-> out.extract,
              verify |-> out.verify,
              supplied |-> IF out.err = "Ok" THEN supplied ELSE <<>>]
    /\ UNCHANGED <<verifierVars, rangeVars, transcriptVars>>

InitializeAccount ==
    \E owner \in Keys :
        Commit("initialize_account", initialize_account(owner), owner, owner, <<>>)

InitializeSolEscrow ==
    \E owner \in Keys :
        Commit("initialize_sol_escrow", initialize_sol_escrow(owner),
               owner, owner, <<>>)

Deposit ==
    \E owner \in Keys, encrypted_commitment \in LedgerCommitments :
        /\ VersionRoom(owner)
        /\ Commit("deposit", deposit(owner, encrypted_commitment),
                  owner, owner, <<encrypted_commitment>>)

Withdraw ==
    \E owner \in Keys, new_commitment \in LedgerCommitments :
        /\ VersionRoom(owner)
        /\ Commit("withdraw", withdraw(owner, new_commitment),
                  owner, owner, <<new_commitment>>)

DepositSol ==
    \E owner \in Keys, amount \in Amounts,
       encrypted_commitment \in LedgerCommitments, cpi_ok \in BOOLEAN :
        /\ VersionRoom(owner)
        /\ EscrowRoom
        /\ Commit("deposit_sol",
                  deposit_sol(owner, amount, encrypted_commitment, cpi_ok),
                  owner, owner, <<encrypted_commitment>>)

WithdrawSol ==
    \E owner \in Keys, amount \in Amounts,
       new_commitment \in LedgerCommitments, cpi_ok \in BOOLEAN :
        /\ VersionRoom(owner)
        /\ Commit("withdraw_sol",
                  withdraw_sol(owner, amount, new_commitment, cpi_ok),
                  owner, owner, <<new_commitment>>)

ConfidentialTransfer ==
    \E sender \in Keys, recipient \in Keys, new \in CommitmentPairs,
       data \in ProofBlobs :
        /\ VersionRoom(sender) /\ VersionRoom(recipient)
        /\ Commit("confidential_transfer",
                  confidential_transfer(sender, recipient, new[1], new[2], data),
                  sender, recipient, new)

ConfidentialSolTransfer ==
    \E sender \in Keys, recipient \in Keys, amount \in Amounts,
       new \in CommitmentPairs, data \in ProofBlobs :
        /\ VersionRoom(sender) /\ VersionRoom(recipient)
        /\ Commit("confidential_sol_transfer",
                  confidential_sol_transfer(sender, recipient, amount,
                                            new[1], new[2], data),
                  sender, recipient, new)

LedgerNext ==
    \/ InitializeAccount
    \/ InitializeSolEscrow
    \/ Deposit
    \/ Withdraw
    \/ DepositSol
    \/ WithdrawSol
    \/ ConfidentialTransfer
    \/ ConfidentialSolTransfer

LedgerSpec == LedgerInit /\ [][LedgerNext]_vars

-----------------------------------------------------------------------------
(* Properties of the verifier (specification Spec) *)

\* slot k lies wholly inside the blob
Present(data, k) == Len(data) >= SlotOffset(k) + SlotSizes[k]

\* the bytes of slot k
SlotOf(data, k) == Slice(data, SlotOffset(k), SlotOffset(k) + SlotSizes[k])

IsZero(bytes) == \A i \in 1..Len(bytes) : bytes[i] = 0

\* the slots whose zero value the codec rejects: commitment, A, S, taux, mu,
\* t of both range records
ZeroCheckedRangeSlots(first) ==
    {first, first + 1, first + 2, first + 5, first + 6, first + 7}

\* every field of the range record whose first slot is `first` is non-zero,
\* A # S, T1 # T2, taux # mu, the commitment differs from A, S, T1, T2, and
\* n is in [1,64]
RangeRecordWellFormed(data, first) ==
    /\ \A k \in first..(first + 7) : ~IsZero(SlotOf(data, k))
    /\ SlotOf(data, first + 1) # SlotOf(data, first + 2)
    /\ SlotOf(data, first + 3) # SlotOf(data, first + 4)
    /\ SlotOf(data, first + 5) # SlotOf(data, first + 6)
    /\ \A k \in (first + 1)..(first + 4) : SlotOf(data, first) # SlotOf(data, k)
    /\ SlotOf(data, first + 8)[1] \in 1..64

\* R and s of the equality record whose first slot is `first` are non-zero
\* and R[0:32] # s
EqualityRecordWellFormed(data, first) ==
    /\ ~IsZero(SlotOf(data, first))
    /\ ~IsZero(SlotOf(data, first + 1))
    /\ Slice(SlotOf(data, first), 0, 32) # SlotOf(data, first + 1)

\* the supplied amount and sender-after commitments are the embedded ones
\* and the other three are non-zero
ArgsMatch ==
    /\ Len(proof_data) >= 481
    /\ amount_commitment = Slice(proof_data, 0, 64)
    /\ sender_after_commitment = Slice(proof_data, 417, 481)
    /\ ~IsZero(sender_old_commitment)
    /\ ~IsZero(recipient_old_commitment)
    /\ ~IsZero(recipient_new_commitment)

\* C1 as stated: whenever bytes[0:64] differs from the supplied
\* amountCommitment, verifyTransferProof fails with CommitmentMismatch.
C1_BindingAlwaysMismatch ==
    (/\ pc = "verified"
     /\ Len(proof_data) >= 64
     /\ Slice(proof_data, 0, 64) # amount_commitment)
    => verdict = "CommitmentMismatch"

\* C1 (amended): whenever bytes[0:64] differs from the supplied
\* amountCommitment, verifyTransferProof never returns Ok: it returns the
\* codec's error when deserialize rejects the blob, InvalidRangeProof when
\* amountCommitment is all-zero, and CommitmentMismatch otherwise.
C1_Binding ==
    (/\ pc = "verified"
     /\ Len(proof_data) >= 64
     /\ Slice(proof_data, 0, 64) # amount_commitment)
    => /\ verdict # "Ok"
       /\ ~IsOk(parsed) => verdict = parsed.err
       /\ (IsOk(parsed) /\ IsZero(amount_commitment))
             => verdict = "InvalidRangeProof"
       /\ (IsOk(parsed) /\ ~IsZero(amount_commitment))
             => verdict = "CommitmentMismatch"

C1_Witness ==
    /\ pc = "verified"
    /\ Len(proof_data) >= 64
    /\ Slice(proof_data, 0, 64) # amount_commitment
    /\ ~IsZero(amount_commitment)
    /\ verdict = "CommitmentMismatch"

RangeRecordSound(p, expected) ==
    /\ \A f \in {"commitment", "a", "s", "t1", "t2", "taux", "mu", "t"} :
          ~IsZero(p[f])
    /\ p.a # p.s
    /\ p.t1 # p.t2
    /\ p.taux # p.mu
    /\ p.n \in 1..64
    /\ p.commitment = expected

EqualityRecordSound(p) ==
    /\ ~IsZero(p.r)
    /\ ~IsZero(p.s)
    /\ Slice(p.r, 0, 32) # p.s

\* C2: whenever verifyTransferProof returns Ok, the blob length is in
\* [512,10000], its first 256 bytes are not all zero, both parsed range
\* records have non-zero commitment, A, S, T1, T2, taux, mu, t with A # S,
\* T1 # T2, taux # mu, n in [1,64] and the embedded commitment equal to the
\* supplied one, and both equality records have non-zero R and s with
\* R[0:32] # s.
C2_OkIsStructurallySound ==
    (pc = "verified" /\ verdict = "Ok")
    => /\ Len(proof_data) \in 512..10000
       /\ ~IsZero(Slice(proof_data, 0, 256))
       /\ IsOk(parsed)
       /\ RangeRecordSound(parsed.val.amount_range_proof, amount_commitment)
       /\ RangeRecordSound(parsed.val.sender_after_range_proof,
                           sender_after_commitment)
       /\ EqualityRecordSound(parsed.val.validity_proof.sender_equality_proof)
       /\ EqualityRecordSound(parsed.val.validity_proof.recipient_equality_proof)

C2_Witness == pc = "verified" /\ verdict = "Ok"

\* the blob of scenario 1: 1600 bytes, bytes [0,64) 0x01, the rest zero
Scenario1Blob == Blob(OnesPrefixContent, 0, 1600)

\* C3 as stated: on the scenario-1 blob extractAmountCommitment returns the
\* 64 bytes of 0x01 and verifyTransferProof returns DeserializationFailed.
C3_Scenario1DeserializationFailed ==
    (/\ pc = "verified"
     /\ proof_data = Scenario1Blob
     /\ amount_commitment = Fill(64, 1))
    => /\ extracted = Ok(Fill(64, 1))
       /\ verdict = "DeserializationFailed"

\* C3 (amended): on the scenario-1 blob extractAmountCommitment returns
\* the 64 bytes of 0x01, the all-zero-prefix heuristic does not fire (the
\* first 256 bytes hold the non-zero commitment), and verifyTransferProof
\* returns InvalidRangeProof, the codec's rejection of the all-zero A.
C3_Scenario1 ==
    (/\ pc = "verified"
     /\ proof_data = Scenario1Blob
     /\ amount_commitment = Fill(64, 1))
    => /\ extracted = Ok(Fill(64, 1))
       /\ parsed = Err("InvalidRangeProof")
       /\ verdict = "InvalidRangeProof"

C3_Witness ==
    /\ pc = "verified"
    /\ proof_data = Scenario1Blob
    /\ amount_commitment = Fill(64, 1)
    /\ extracted = Ok(Fill(64, 1))

\* the arrays of a range record as the codec finds them at 0-based `at`
RangeRecordAt(p, data, at) ==
    /\ p.commitment = Slice(data, at, at + 64)
    /\ p.a = Slice(data, at + 64, at + 128)
    /\ p.s = Slice(data, at + 128, at + 192)
    /\ p.t1 = Slice(data, at + 192, at + 256)
    /\ p.t2 = Slice(data, at + 256, at + 320)
    /\ p.taux = Slice(data, at + 320, at + 352)
    /\ p.mu = Slice(data, at + 352, at + 384)
    /\ p.t = Slice(data, at + 384, at + 416)
    /\ p.n = data[at + 416 + 1]

EqualityRecordAt(p, data, at) ==
    /\ p.r = Slice(data, at, at + 64)
    /\ p.s = Slice(data, at + 64, at + 96)

\* C4 as stated: the records are 301 and 96 bytes long: the sender-after
\* record is read at offset 301, the sender equality record at 602, the
\* recipient equality record at 698, 794 bytes in all.
C4_Layout301 ==
    (pc = "parsed" /\ IsOk(parsed))
    => /\ RangeRecordAt(parsed.val.sender_after_range_proof, proof_data, 301)
       /\ EqualityRecordAt(parsed.val.validity_proof.sender_equality_proof,
                           proof_data, 602)
       /\ EqualityRecordAt(parsed.val.validity_proof.recipient_equality_proof,
                           proof_data, 698)

\* C4 (amended): the fixed layout is two 417-byte range-proof records
\* (5 x 64 + 3 x 32 + 1) followed by two 96-byte equality-proof records:
\* deserialize reads the amount record at offset 0, the sender-after record
\* at 417, the sender equality record at 834 and the recipient equality
\* record at 930, consuming 1026 bytes in all: no shorter blob is accepted
\* and the bytes after offset 1026 do not change the result.
C4_Layout417 ==
    (pc = "parsed" /\ IsOk(parsed))
    => /\ RangeRecordAt(parsed.val.amount_range_proof, proof_data, 0)
       /\ RangeRecordAt(parsed.val.sender_after_range_proof, proof_data, 417)
       /\ EqualityRecordAt(parsed.val.validity_proof.sender_equality_proof,
                           proof_data, 834)
       /\ EqualityRecordAt(parsed.val.validity_proof.recipient_equality_proof,
                           proof_data, 930)
       /\ Len(proof_data) >= 1026
       /\ parsed = deserialize_proof_data(SubSeq(proof_data, 1, 1026))

C4_Witness ==
    /\ pc = "parsed"
    /\ IsOk(parsed)
    /\ Len(proof_data) = 1600
    /\ parsed.val.sender_after_range_proof.commitment # Slice(proof_data, 301, 365)

\* C5 as stated: a blob too short for the complete layout is rejected by
\* deserialize with DeserializationFailed, whatever its content.
C5_ShortAlwaysDeserializationFailed ==
    (pc = "parsed" /\ Len(proof_data) < LayoutSize)
    => parsed = Err("DeserializationFailed")

\* a record the blob holds the arrays of has a zero-checked field of zeros
ZeroRangeField(data) ==
    \E first \in {1, 10} :
       /\ Present(data, first + 7)
       /\ \E k \in ZeroCheckedRangeSlots(first) : IsZero(SlotOf(data, k))

ZeroSenderEqualityField(data) ==
    /\ Present(data, 20)
    /\ IsZero(SlotOf(data, 19)) \/ IsZero(SlotOf(data, 20))

\* C5 (amended): a blob too short for the complete layout is never
\* accepted by deserialize.  It is rejected with DeserializationFailed,
\* unless its length and zero-prefix guards pass and a zero check on a
\* record whose arrays were all read fires before the short read: then the
\* error is InvalidRangeProof (a zero commitment, A, S, taux, mu or t) or
\* InvalidEqualityProof (a zero R or s of the sender equality record).
C5_ShortNeverAccepted ==
    (pc = "parsed" /\ Len(proof_data) < LayoutSize)
    => /\ ~IsOk(parsed)
       /\ parsed.err \in {"DeserializationFailed", "InvalidRangeProof",
                          "InvalidEqualityProof"}
       /\ parsed.err = "InvalidRangeProof"
             => /\ Len(proof_data) >= 512
                /\ ~IsZero(Slice(proof_data, 0, 256))
                /\ ZeroRangeField(proof_data)
       /\ parsed.err = "InvalidEqualityProof"
             => /\ Len(proof_data) >= 930
                /\ ~ZeroRangeField(proof_data)
                /\ ZeroSenderEqualityField(proof_data)
       /\ (~ZeroRangeField(proof_data) /\ ~ZeroSenderEqualityField(proof_data))
             => parsed.err = "DeserializationFailed"

C5_Witness ==
    /\ pc = "parsed"
    /\ Len(proof_data) \in 930..(LayoutSize - 1)
    /\ parsed = Err("InvalidEqualityProof")

\* every field that lies wholly in the blob is as scenario 2 asks
PresentFieldsWellFormed(data) ==
    /\ \A k \in ArraySlots : Present(data, k) => ~IsZero(SlotOf(data, k))
    /\ \A first \in {1, 10} :
          /\ Present(data, first + 2)
                => SlotOf(data, first + 1) # SlotOf(data, first + 2)
          /\ Present(data, first + 4)
                => SlotOf(data, first + 3) # SlotOf(data, first + 4)
          /\ Present(data, first + 6)
                => SlotOf(data, first + 5) # SlotOf(data, first + 6)
          /\ \A k \in (first + 1)..(first + 4) :
                Present(data, k) => SlotOf(data, first) # SlotOf(data, k)
          /\ Present(data, first + 8) => SlotOf(data, first + 8)[1] \in 1..64
    /\ \A first \in {19, 21} :
          Present(data, first + 1)
             => Slice(SlotOf(data, first), 0, 32) # SlotOf(data, first + 1)

\* C6 as stated: for every blob of valid length, [512,10000], whose parsed
\* fields are all non-zero and distinct as required, with n in [1,64] in
\* both range records, the supplied amount and sender-after commitments
\* equal to the embedded ones and senderOld, recipientOld, recipientNew
\* non-zero, verifyTransferProof returns Ok.
C6_ValidLengthIsAccepted ==
    (/\ pc = "verified"
     /\ Len(proof_data) \in 512..10000
     /\ PresentFieldsWellFormed(proof_data)
     /\ ArgsMatch)
    => verdict = "Ok"

\* every field of the layout lies in the blob and is as scenario 2 asks
AllFieldsWellFormed(data) ==
    /\ Present(data, 22)
    /\ RangeRecordWellFormed(data, 1)
    /\ RangeRecordWellFormed(data, 10)
    /\ EqualityRecordWellFormed(data, 19)
    /\ EqualityRecordWellFormed(data, 21)

\* C6 (amended): for every blob that holds the whole layout, its length in
\* [1026,10000], whose fields are all non-zero and distinct as required
\* (A # S, T1 # T2, taux # mu, commitment distinct from A, S, T1, T2,
\* R[0:32] # s), with n in [1,64] in both range records, the supplied
\* amount and sender-after commitments equal to the embedded ones and
\* senderOld, recipientOld, recipientNew non-zero, verifyTransferProof
\* returns Ok; a shorter blob of valid length is rejected with
\* DeserializationFailed.
C6_WellFormedIsAccepted ==
    /\ (/\ pc = "verified"
        /\ Len(proof_data) \in 512..10000
        /\ AllFieldsWellFormed(proof_data)
        /\ ArgsMatch)
       => verdict = "Ok"
    /\ (/\ pc = "verified"
        /\ Len(proof_data) \in 512..(LayoutSize - 1)
        /\ PresentFieldsWellFormed(proof_data))
       => verdict = "DeserializationFailed"

C6_Witness ==
    /\ pc = "verified"
    /\ Len(proof_data) = 1600
    /\ AllFieldsWellFormed(proof_data)
    /\ ArgsMatch
    /\ verdict = "Ok"

\* C7: a blob valid as in scenario 2 but for an all-zero s in its sender
\* equality record makes verifyTransferProof return InvalidEqualityProof,
\* and the codec produces it: deserialize on the same blob returns
\* InvalidEqualityProof, before any validator runs.
C7_ZeroEqualityScalarRejectedByCodec ==
    (/\ pc = "verified"
     /\ Len(proof_data) \in LayoutSize..10000
     /\ RangeRecordWellFormed(proof_data, 1)
     /\ RangeRecordWellFormed(proof_data, 10)
     /\ ~IsZero(SlotOf(proof_data, 19))
     /\ IsZero(SlotOf(proof_data, 20))
     /\ EqualityRecordWellFormed(proof_data, 21))
    => /\ verdict = "InvalidEqualityProof"
       /\ parsed = Err("InvalidEqualityProof")
       /\ transfer_proof_trace(proof_data, amount_commitment,
                               sender_after_commitment, sender_old_commitment,
                               recipient_old_commitment,
                               recipient_new_commitment).stage = "Decode"

C7_Witness ==
    /\ pc = "verified"
    /\ Len(proof_data) = 1600
    /\ RangeRecordWellFormed(proof_data, 1)
    /\ RangeRecordWellFormed(proof_data, 10)
    /\ IsZero(SlotOf(proof_data, 20))
    /\ ArgsMatch
    /\ verdict = "InvalidEqualityProof"

\* the eight arrays of the range record whose first slot is `first` are as
\* scenario 2 asks; its n byte is left free
RangeArraysWellFormed(data, first) ==
    /\ \A k \in first..(first + 7) : ~IsZero(SlotOf(data, k))
    /\ SlotOf(data, first + 1) # SlotOf(data, first + 2)
    /\ SlotOf(data, first + 3) # SlotOf(data, first + 4)
    /\ SlotOf(data, first + 5) # SlotOf(data, first + 6)
    /\ \A k \in (first + 1)..(first + 4) : SlotOf(data, first) # SlotOf(data, k)

\* the n byte of the range record whose first slot is `first`
NByte(data, first) == SlotOf(data, first + 8)[1]

\* a call as in scenario 2 but for the n bytes of its two range records
Scenario2ButN ==
    /\ pc = "verified"
    /\ Len(proof_data) \in LayoutSize..10000
    /\ RangeArraysWellFormed(proof_data, 1)
    /\ RangeArraysWellFormed(proof_data, 10)
    /\ EqualityRecordWellFormed(proof_data, 19)
    /\ EqualityRecordWellFormed(proof_data, 21)
    /\ ArgsMatch

\* C11: for a blob otherwise valid as in scenario 2, verifyTransferProof
\* returns InvalidRangeProof when the n byte of either range record is 0 or
\* greater than 64, and does not reject on account of n (it returns Ok)
\* when both are in [1,64].
C11_RangeSize ==
    Scenario2ButN
    => IF NByte(proof_data, 1) \in 1..64 /\ NByte(proof_data, 10) \in 1..64
       THEN verdict = "Ok"
       ELSE verdict = "InvalidRangeProof"

\* the sender-after record alone carries n = 65
C11_Witness ==
    /\ Scenario2ButN
    /\ NByte(proof_data, 1) = 64
    /\ NByte(proof_data, 10) = 65
    /\ verdict = "InvalidRangeProof"

\* the results the stages after Decode would give on their own for the call
\* of the current state, whose blob the codec has decoded to `parsed`
AmountRangeCheck ==
    verify_range_proof(parsed.val.amount_range_proof, amount_commitment)

SenderAfterRangeCheck ==
    verify_range_proof(parsed.val.sender_after_range_proof,
                       sender_after_commitment)

ValidityCheck ==
    verify_validity_proof(parsed.val.validity_proof, sender_old_commitment,
                          amount_commitment, sender_after_commitment,
                          recipient_old_commitment, recipient_new_commitment)

BindingCheck ==
    IF /\ parsed.val.amount_range_proof.commitment = amount_commitment
       /\ parsed.val.sender_after_range_proof.commitment = sender_after_commitment
    THEN "Ok" ELSE "CommitmentMismatch"

SomeOldOrNewIsZero ==
    \/ IsZero(sender_old_commitment)
    \/ IsZero(recipient_old_commitment)
    \/ IsZero(recipient_new_commitment)

\* C12: verifyTransferProof returns the error of the earliest failing stage
\* in the order Decode, RangeCheck(amount), RangeCheck(senderAfter),
\* ValidityCheck, BindingCheck: a codec error whatever the commitments, the
\* amount check's error when both range checks fail, and a range check's
\* error rather than InvalidValidityProof when one of senderOld,
\* recipientOld, recipientNew is zero.
C12_EarliestFailingStage ==
    pc = "verified"
    => IF ~IsOk(parsed) THEN verdict = parsed.err
       ELSE IF AmountRangeCheck # "Ok" THEN verdict = AmountRangeCheck
       ELSE IF SenderAfterRangeCheck # "Ok" THEN verdict = SenderAfterRangeCheck
       ELSE IF ValidityCheck # "Ok" THEN verdict = ValidityCheck
       ELSE verdict = BindingCheck

\* both range checks fail, with different errors, and a commitment the
\* validity check looks at is zero: the amount check's error is returned
C12_Witness ==
    /\ pc = "verified"
    /\ IsOk(parsed)
    /\ AmountRangeCheck = "CommitmentMismatch"
    /\ SenderAfterRangeCheck = "InvalidRangeProof"
    /\ SomeOldOrNewIsZero
    /\ ValidityCheck = "InvalidValidityProof"
    /\ verdict = "CommitmentMismatch"

\* bytes [0,64) of the blob of the current state
First64 == [i \in 1..64 |-> proof_data[i]]

\* C13: extractAmountCommitment is total and exactly characterised:
\* DeserializationFailed for every blob shorter than 64 bytes,
\* InvalidCommitment when bytes [0,64) are all zero, and otherwise exactly
\* bytes [0,64), whatever follows offset 64.
C13_ExtractAmountCommitment ==
    pc # "start"
    => IF Len(proof_data) < 64
       THEN extracted = [err |-> "DeserializationFailed"]
       ELSE IF \A i \in 1..64 : proof_data[i] = 0
       THEN extracted = [err |-> "InvalidCommitment"]
       ELSE extracted = [err |-> "Ok", val |-> First64]

\* a commitment that is zero but for its last byte is returned, from a blob
\* that continues after offset 64
C13_Witness ==
    /\ pc # "start"
    /\ Len(proof_data) > 64
    /\ \A i \in 1..63 : proof_data[i] = 0
    /\ proof_data[64] # 0
    /\ extracted = [err |-> "Ok", val |-> First64]

\* the first 256 bytes of the blob of the current state are all zero
ZeroPrefix256 ==
    /\ Len(proof_data) >= 256
    /\ \A i \in 1..256 : proof_data[i] = 0

\* C14: pre-parse guards of deserialize: every blob shorter than 512 bytes,
\* every blob longer than 10000 bytes and every blob whose first 256 bytes
\* are all zero is rejected with DeserializationFailed, whatever the rest of
\* its content.
C14_PreParseGuards ==
    /\ pc \in {"parsed", "verified"}
    /\ \/ Len(proof_data) < 512
       \/ Len(proof_data) > 10000
       \/ ZeroPrefix256
    => parsed = [err |-> "DeserializationFailed"]

\* a blob of valid length with a zero prefix and a non-zero byte after it
C14_Witness ==
    /\ pc = "parsed"
    /\ Len(proof_data) \in 512..10000
    /\ ZeroPrefix256
    /\ \E i \in 257..Len(proof_data) : proof_data[i] # 0
    /\ parsed = [err |-> "DeserializationFailed"]

\* the blob of the current state holds the whole layout within the size
\* limit, with every field non-zero and pairwise distinct as required
WellFormedBlob ==
    /\ Len(proof_data) \in LayoutSize..MAX_PROOF_DATA_SIZE
    /\ RangeRecordWellFormed(proof_data, 1)
    /\ RangeRecordWellFormed(proof_data, 10)
    /\ EqualityRecordWellFormed(proof_data, 19)
    /\ EqualityRecordWellFormed(proof_data, 21)

\* C15: for every well-formed blob (every required field non-zero and
\* pairwise distinct as required) deserialize succeeds, the parsed amount
\* range proof's commitment equals bytes [0,64), and every other parsed field
\* equals the blob's bytes at its fixed offset: parsing copies bytes
\* unchanged.
C15_WellFormedParsesUnchanged ==
    (pc \in {"parsed", "verified"} /\ WellFormedBlob)
    => /\ IsOk(parsed)
       /\ parsed.val.amount_range_proof.commitment = First64
       /\ RangeRecordAt(parsed.val.amount_range_proof, proof_data, 0)
       /\ RangeRecordAt(parsed.val.sender_after_range_proof, proof_data, 417)
       /\ EqualityRecordAt(parsed.val.validity_proof.sender_equality_proof,
                           proof_data, 834)
       /\ EqualityRecordAt(parsed.val.validity_proof.recipient_equality_proof,
                           proof_data, 930)

\* a well-formed blob one of whose fields is zero but for its last byte
C15_Witness ==
    /\ pc = "parsed"
    /\ WellFormedBlob
    /\ \E k \in ArraySlots : SlotOf(proof_data, k)[1] = 0
    /\ IsOk(parsed)
    /\ parsed.val.amount_range_proof.commitment = First64

\* the results verify_transfer_proof may give
TransferProofResults ==
    {"Ok", "DeserializationFailed", "InvalidRangeProof", "InvalidEqualityProof",
     "InvalidValidityProof", "CommitmentMismatch"}

\* C18: error taxonomy: for every input verifyTransferProof terminates with
\* Ok or with one of DeserializationFailed, InvalidRangeProof,
\* InvalidEqualityProof, InvalidValidityProof, CommitmentMismatch; it never
\* returns the reserved BalanceEquationFailed or InvalidProofStructure, nor
\* InvalidPoint or InvalidCommitment.
C18_ErrorTaxonomy ==
    pc = "verified"
    => /\ verdict \in TransferProofResults
       /\ verdict \notin {"BalanceEquationFailed", "InvalidProofStructure",
                          "InvalidPoint", "InvalidCommitment"}

\* a call on a blob extract_amount_commitment rejects with InvalidCommitment:
\* verify_transfer_proof reports one of its own errors
C18_Witness ==
    /\ pc = "verified"
    /\ extracted = [err |-> "InvalidCommitment"]
    /\ Len(proof_data) >= LayoutSize
    /\ ~ZeroPrefix256
    /\ verdict = "InvalidRangeProof"

PastGuardsAndLongEnough ==
    /\ pc \in {"parsed", "verified"}
    /\ Len(proof_data) \in LayoutSize..MAX_PROOF_DATA_SIZE
    /\ ~ZeroPrefix256

\* R or s of one of the two equality records is all-zero
ZeroEqualityField(data) == \E k \in 19..22 : IsZero(SlotOf(data, k))

\* T1 or T2 of one of the two range records is all-zero
ZeroT1OrT2(data) == \E k \in {4, 5, 13, 14} : IsZero(SlotOf(data, k))

\* an all-zero T1 or T2 passes the codec and is rejected by the range-proof
\* validator once the supplied commitments are the embedded ones
ZeroT1OrT2PassesCodec ==
    (/\ ZeroT1OrT2(proof_data)
     /\ ~ZeroRangeField(proof_data)
     /\ ~ZeroEqualityField(proof_data))
    => /\ IsOk(parsed)
       /\ (pc = "verified" /\ ArgsMatch) => verdict = "InvalidRangeProof"

\* C23 as stated: past the guards, a zero commitment, A, S, taux, mu or t of
\* either range record gives InvalidRangeProof, a zero R or s of either
\* equality record gives InvalidEqualityProof, and a zero T1 or T2 is not
\* rejected by deserialize but later by the range-proof validator.
C23_ZeroFieldsRejected ==
    PastGuardsAndLongEnough
    => /\ ZeroRangeField(proof_data) => parsed = [err |-> "InvalidRangeProof"]
       /\ ZeroEqualityField(proof_data)
             => parsed = [err |-> "InvalidEqualityProof"]
       /\ ZeroT1OrT2PassesCodec

\* C23 (amended): the records are checked in the order they are read, so a
\* zero R or s of an equality record gives InvalidEqualityProof only when
\* no checked field of the two range records is zero; a zero checked range
\* field gives InvalidRangeProof whatever the equality records hold.
C23_ZeroFieldsRejectedInOrder ==
    PastGuardsAndLongEnough
    => /\ ZeroRangeField(proof_data) => parsed = [err |-> "InvalidRangeProof"]
       /\ (~ZeroRangeField(proof_data) /\ ZeroEqualityField(proof_data))
             => parsed = [err |-> "InvalidEqualityProof"]
       /\ ZeroT1OrT2PassesCodec

\* a zero T2 in the sender-after record: decoded, then rejected by the
\* range-proof validator
C23_Witness ==
    /\ pc = "verified"
    /\ PastGuardsAndLongEnough
    /\ IsZero(SlotOf(proof_data, 14))
    /\ IsOk(parsed)
    /\ ArgsMatch
    /\ verdict = "InvalidRangeProof"

\* the call of the current state passed the codec, both range checks and the
\* validity check: it reaches the final comparison of the commitments
ReachesBindingCheck ==
    /\ pc \in {"verified", "verified_again"}
    /\ IsOk(parsed)
    /\ AmountRangeCheck = "Ok"
    /\ SenderAfterRangeCheck = "Ok"
    /\ ValidityCheck = "Ok"

\* C25: the final binding re-check of verifyTransferProof can never fail: in
\* every execution that reaches it both embedded commitments already equal
\* the supplied amountCommitment and senderAfterCommitment, so every
\* CommitmentMismatch it returns originates from the comparison inside a
\* RangeProofValidator call.
C25_BindingRecheckNeverFails ==
    /\ ReachesBindingCheck
       => /\ parsed.val.amount_range_proof.commitment = amount_commitment
          /\ parsed.val.sender_after_range_proof.commitment
                = sender_after_commitment
          /\ verdict = "Ok"
    /\ (pc \in {"verified", "verified_again"} /\ verdict = "CommitmentMismatch")
       => /\ IsOk(parsed)
          /\ \/ AmountRangeCheck = "CommitmentMismatch"
             \/ /\ AmountRangeCheck = "Ok"
                /\ SenderAfterRangeCheck = "CommitmentMismatch"
    /\ pc \in {"verified", "verified_again"}
       => transfer_proof_trace(proof_data, amount_commitment,
                               sender_after_commitment, sender_old_commitment,
                               recipient_old_commitment,
                               recipient_new_commitment).stage # "BindingCheck"

\* the amount record passes and the sender-after record's commitment is not
\* the supplied one: the mismatch comes from the second range check
C25_Witness ==
    /\ pc = "verified"
    /\ IsOk(parsed)
    /\ AmountRangeCheck = "Ok"
    /\ SenderAfterRangeCheck = "CommitmentMismatch"
    /\ verdict = "CommitmentMismatch"

\* C26: the verdict of verifyTransferProof depends on senderOldCommitment,
\* recipientOldCommitment and recipientNewCommitment only through whether
\* each is all-zero: two calls that agree on the blob, amountCommitment and
\* senderAfterCommitment and differ only in the non-zero values of those
\* three commitments return the same result; no mutual distinctness among
\* them is required.
C26_OnlyZeronessMatters ==
    (/\ pc = "verified_other"
     /\ IsZero(other_commitments.sender_old) <=> IsZero(sender_old_commitment)
     /\ IsZero(other_commitments.recipient_old)
           <=> IsZero(recipient_old_commitment)
     /\ IsZero(other_commitments.recipient_new)
           <=> IsZero(recipient_new_commitment))
    => verdict_other = verdict

\* an accepted call is accepted again with its three other commitments all
\* replaced by one value, the amount commitment
C26_Witness ==
    /\ pc = "verified_other"
    /\ verdict = "Ok"
    /\ other_commitments.sender_old = amount_commitment
    /\ other_commitments.recipient_old = amount_commitment
    /\ other_commitments.recipient_new = amount_commitment
    /\ sender_old_commitment # recipient_old_commitment
    /\ verdict_other = "Ok"

-----------------------------------------------------------------------------
(* The default of n (specification Spec) *)

\* the blob passes the guards deserialize_proof_data makes before it parses
CodecGuardsPass(data) ==
    /\ Len(data) >= MIN_PROOF_DATA_SIZE
    /\ Len(data) <= MAX_PROOF_DATA_SIZE
    /\ Len(data) >= MIN_STRUCTURE_SIZE
    /\ ~all_zeros(data)

\* r is what the eight read_array calls of a range record returned: the
\* record's zero checks pass and no byte remains at the offset, so that n is
\* the default
NDefaulted(data, r) ==
    /\ IsOk(r)
    /\ IsOk(range_record(data, r.val.arrs, r.val.offset))
    /\ ~(r.val.offset < Len(data))

\* the sender-after record, read where the amount record ended, takes the
\* default
NDefaultedAfter(data, amount) ==
    /\ IsOk(amount)
    /\ NDefaulted(data, read_arrays(data, amount.val.offset,
                                    RangeFieldSizes, <<>>))

\* deserialize_proof_data, run on the blob, takes the default n = 64 in one
\* of the two range records
DefaultNTaken(data) ==
    /\ CodecGuardsPass(data)
    /\ \/ NDefaulted(data, read_arrays(data, 0, RangeFieldSizes, <<>>))
       \/ NDefaultedAfter(data, parse_range_proof(data, 0))

\* C28: the default n = 64 is never observable in a successful parse.  Once
\* deserialize_proof_data has run: if it accepted the blob, the blob is at
\* least 1026 bytes long, the amount record's n is bytes[416] and the
\* sender-after record's n is bytes[833]; if it took the default for an n,
\* it returned DeserializationFailed.
C28_DefaultNeverObservable ==
    pc \notin {"start", "extracted"}
    => /\ IsOk(parsed) =>
             /\ Len(proof_data) >= 1026
             /\ parsed.val.amount_range_proof.n = proof_data[416 + 1]
             /\ parsed.val.sender_after_range_proof.n = proof_data[833 + 1]
             /\ ~DefaultNTaken(proof_data)
       /\ DefaultNTaken(proof_data) => parsed = Err("DeserializationFailed")

\* the codec ran on a blob of 833 bytes whose two range records pass their
\* zero checks: no byte remains for the sender-after record's n, the
\* default is taken, and the read of the sender equality record fails
C28_Witness ==
    /\ pc = "parsed"
    /\ Len(proof_data) = 833
    /\ DefaultNTaken(proof_data)
    /\ parsed = Err("DeserializationFailed")

-----------------------------------------------------------------------------
(* Determinism and chaining of the transcript (specification TranscriptSpec) *)

\* a transcript other than the one of the state: `r` is its log, the bytes
\* its last challenge returned and its panic flag; the result is `r` after
\* `call` is made on it
replay_call(r, call) ==
    CASE call.op = "new" ->
           [messages |-> transcript_new(call.domain_separator), out |-> <<>>,
            panicked |-> FALSE]
      [] call.op = "append_message" ->
           [messages |-> append_message(r.messages, call.label, call.message),
            out |-> r.out, panicked |-> FALSE]
      [] call.op = "append_point" ->
           [messages |-> append_point(r.messages, call.label, call.message),
            out |-> r.out, panicked |-> FALSE]
      [] call.op = "append_scalar" ->
           [messages |-> append_scalar(r.messages, call.label, call.message),
            out |-> r.out, panicked |-> FALSE]
      [] call.op = "challenge_scalar" ->
           challenge_scalar(r.messages, call.label)
      [] call.op = "challenge_bytes" ->
           challenge_bytes(r.messages, call.label, call.len)

\* a second transcript, constructed on its own, after the first k calls of
\* `history` (the construction included)
RECURSIVE SecondEngine(_, _)
SecondEngine(history, k) ==
    IF k = 0 THEN [messages |-> <<>>, out |-> <<>>, panicked |-> FALSE]
    ELSE replay_call(SecondEngine(history, k - 1), history[k].call)

IsPrefixOf(short, long) ==
    /\ Len(short) <= Len(long)
    /\ \A i \in 1..Len(short) : long[i] = short[i]

\* `part` occurs in `whole` as a run of consecutive bytes
OccursIn(part, whole) ==
    \E at \in 0..(Len(whole) - Len(part)) :
        \A i \in 1..Len(part) : whole[at + i] = part[i]

\* the label of a call as the challenge functions hash it: its length as
\* eight little-endian bytes, then its bytes
LengthPrefixed(label) ==
    <<Len(label) % 256, (Len(label) \div 256) % 256, 0, 0, 0, 0, 0, 0>> \o label

\* the last call was challenge_scalar: it returned the first 32 bytes of the
\* hash of the previous log and the length-prefixed label, and the log is
\* the previous log followed by that digest and nothing else
ChallengeChained ==
    t_last.op = "challenge_scalar"
    => /\ t_out = SubSeq(Keccak256(t_last.before \o LengthPrefixed(t_last.label)),
                         1, 32)
       /\ messages = t_last.before \o t_out

\* the log a challenge is computed over holds every earlier challenge
EarlierChallengesHashed ==
    t_last.op = "challenge_scalar"
    => \A k \in 1..(Len(t_history) - 1) :
          t_history[k].call.op = "challenge_scalar"
          => OccursIn(t_history[k].out, t_last.before)

\* C17: transcript chaining: challengeScalar(label) returns the first 32
\* bytes of hash(log || length-prefixed label) and leaves the log equal to
\* the previous log followed by exactly that digest (the label is not
\* appended); the log is append-only, so every earlier log is a prefix of
\* every later log, and a second challenge is computed over a log that
\* contains the first challenge.
C17_TranscriptChaining ==
    /\ [](ChallengeChained /\ EarlierChallengesHashed)
    /\ [][IsPrefixOf(messages, messages')]_vars

\* a second challenge_scalar follows a first one and an append
C17_Witness ==
    /\ Len(t_history) = 4
    /\ t_history[2].call.op = "challenge_scalar"
    /\ t_history[3].call.op = "append_point"
    /\ t_last.op = "challenge_scalar"
    /\ OccursIn(t_history[2].out, t_last.before)
    /\ messages = t_last.before \o t_out
    /\ Len(t_out) = 32

\* the call of a history entry appends a (label, payload) pair
IsAppend(entry) ==
    entry.call.op \in {"append_message", "append_point", "append_scalar"}

\* `history` with its calls k and k + 1 exchanged
Swapped(history, k) ==
    [i \in 1..Len(history) |->
        IF i = k THEN history[k + 1] ELSE IF i = k + 1 THEN history[k]
        ELSE history[i]]

\* calls k and k + 1 of the history append two different pairs
DifferentAppends(k) ==
    /\ IsAppend(t_history[k])
    /\ IsAppend(t_history[k + 1])
    /\ \/ t_history[k].call.label # t_history[k + 1].call.label
       \/ t_history[k].call.message # t_history[k + 1].call.message

\* C24: transcript order significance: on engines created with the same
\* domain separator, appending (label1, msg1) then (label2, msg2) yields a
\* different log, hence a different hash input for the next challenge, than
\* appending them in the opposite order whenever the two pairs differ.
C24_AppendOrderSignificant ==
    \A k \in 2..(Len(t_history) - 1) :
        DifferentAppends(k)
        => SecondEngine(Swapped(t_history, k), k + 1).messages
              # SecondEngine(t_history, k + 1).messages

\* two appends of an empty message under the labels "x" and "xx", whose
\* bytes without the length prefixes would read the same in either order
C24_Witness ==
    /\ Len(t_history) = 3
    /\ DifferentAppends(2)
    /\ t_history[2].call.label \o t_history[2].call.message
          \o t_history[3].call.label \o t_history[3].call.message
       = t_history[3].call.label \o t_history[3].call.message
          \o t_history[2].call.label \o t_history[2].call.message
    /\ SecondEngine(Swapped(t_history, 2), 3).messages # messages

-----------------------------------------------------------------------------
(* Properties of the range-proof validator (specification RangeSpec) *)

\* C9 as stated: a record whose A and S are byte-identical and non-zero is
\* rejected with InvalidRangeProof, for every expected commitment.
C9_EqualASAlwaysInvalidRangeProof ==
    (/\ rp_result # "Pending"
     /\ rp_proof.a = rp_proof.s
     /\ ~IsZero(rp_proof.a))
    => rp_result = "InvalidRangeProof"

\* C9 (amended): a record whose A and S are byte-identical and non-zero is
\* never accepted, for every expected commitment: it is rejected with
\* CommitmentMismatch when the expected commitment is non-zero and differs
\* from the record's commitment, and with InvalidRangeProof otherwise.
C9_EqualASRejected ==
    (/\ rp_result # "Pending"
     /\ rp_proof.a = rp_proof.s
     /\ ~IsZero(rp_proof.a))
    => /\ rp_result # "Ok"
       /\ IF ~IsZero(rp_commitment) /\ rp_proof.commitment # rp_commitment
          THEN rp_result = "CommitmentMismatch"
          ELSE rp_result = "InvalidRangeProof"

\* an otherwise acceptable record, with its own commitment expected, is
\* rejected for A = S alone
C9_Witness ==
    /\ rp_result = "InvalidRangeProof"
    /\ rp_proof.a = rp_proof.s
    /\ rp_proof = [DistinctRangeProof EXCEPT !.a = rp_proof.s]
    /\ rp_commitment = rp_proof.commitment

\* the expected commitment of the call is non-zero and the record's
\* commitment differs from it
BindingBroken ==
    /\ \E i \in 1..64 : rp_commitment[i] # 0
    /\ \E i \in 1..64 : rp_proof.commitment[i] # rp_commitment[i]

-----------------------------------------------------------------------------
(* Properties of the transcript (specification TranscriptSpec) *)

\* C10: challengeBytes(label, n) completes without failure for every n,
\* returns exactly n bytes and appends the digest to the log; for n = 32 it
\* returns the bytes challengeScalar(label) returns from the same log.
C10_ChallengeBytesAnyLength ==
    t_last.op = "challenge_bytes"
    => /\ ~t_panicked
       /\ Len(t_out) = t_last.len
       /\ messages = t_last.before \o challenge_hash(t_last.before, t_last.label)
       /\ t_last.len = 32
             => t_out = challenge_scalar(t_last.before, t_last.label).out

-----------------------------------------------------------------------------
(* Properties of the validity and equality validators (specification
   ValiditySpec) *)

\* one of the five commitments of the call is all-zero
SomeCommitmentZero ==
    \E f \in DOMAIN vp_commitments : IsZero(vp_commitments[f])

\* the equality proof p fails its structural checks: R or s is all-zero, or
\* the first 32 bytes of R are s
EqualityProofBroken(p) ==
    \/ IsZero(p.r)
    \/ IsZero(p.s)
    \/ \A i \in 1..32 : p.r[i] = p.s[i]

\* C21: ValidityProofValidator.verify returns InvalidValidityProof whenever
\* any of the five commitments (senderOld, amount, senderNew, recipientOld,
\* recipientNew) is all-zero, even if an equality proof is also invalid;
\* otherwise InvalidEqualityProof if the sender equality check or, failing
\* that, the recipient equality check fails; otherwise Ok.
C21_ValidityProofVerdict ==
    vp_result \notin {"Pending", "Idle"}
    => vp_result =
         IF SomeCommitmentZero THEN "InvalidValidityProof"
         ELSE IF EqualityProofBroken(vp_proof.sender_equality_proof)
         THEN "InvalidEqualityProof"
         ELSE IF EqualityProofBroken(vp_proof.recipient_equality_proof)
         THEN "InvalidEqualityProof"
         ELSE "Ok"

\* a zero senderOld together with a sender equality proof whose R is zero
C21_Witness ==
    /\ vp_result = "InvalidValidityProof"
    /\ IsZero(vp_commitments.sender_old)
    /\ IsZero(vp_proof.sender_equality_proof.r)

\* C22: EqualityProofValidator.verify returns Ok if and only if commitmentA
\* and commitmentB are non-zero, proof.R is non-zero, proof.s is non-zero and
\* the first 32 bytes of R differ from s; in every other case it returns
\* InvalidEqualityProof.
C22_EqualityProofVerdict ==
    ep_result \notin {"Pending", "Idle"}
    => ep_result =
         IF /\ ~IsZero(vp_commitments.sender_old)
            /\ ~IsZero(vp_commitments.sender_new)
            /\ ~EqualityProofBroken(vp_proof.sender_equality_proof)
         THEN "Ok"
         ELSE "InvalidEqualityProof"

\* a non-zero R whose first 32 bytes are zero passes with a non-zero s
C22_Witness ==
    /\ ep_result = "Ok"
    /\ \A i \in 1..32 : vp_proof.sender_equality_proof.r[i] = 0
    /\ ~IsZero(vp_proof.sender_equality_proof.s)
    /\ vp_commitments.sender_old = vp_commitments.sender_new

-----------------------------------------------------------------------------
(* Properties of the ledger (specification LedgerSpec) *)

Transfers == {"confidential_transfer", "confidential_sol_transfer"}

\* the proof verification of the last instruction returned an error
ProofRejected(i) ==
    \/ i.extract \notin {"NotReached", "Ok"}
    \/ i.verify \notin {"NotReached", "Ok"}

NeverDepositedInto(key) ==
    /\ accounts[key].exists
    /\ accounts[key].encrypted_balance = Zeros(64)

\* the errors of the checks both transfer handlers make before they verify
\* the proof
EarlierCheckErrors ==
    {"AccountNotInitialized", "Unauthorized", "InvalidRecipient",
     "InvalidCommitment", "InvalidAmount", "InsufficientBalance"}

\* C27 as stated: every confidential_transfer or confidential_sol_transfer
\* to a recipient whose account still holds the all-zero encrypted_balance
\* fails with InvalidProof and leaves both accounts unchanged.
C27_ZeroRecipientAlwaysInvalidProof ==
    [][(ix'.name \in Transfers /\ NeverDepositedInto(ix'.recipient)) =>
         /\ ix'.err = "InvalidProof"
         /\ accounts'[ix'.sender] = accounts[ix'.sender]
         /\ accounts'[ix'.recipient] = accounts[ix'.recipient]
      ]_vars

\* C27: a transfer to a never-deposited recipient is always rejected.  Every
\* step that runs confidential_transfer or confidential_sol_transfer while
\* the recipient's account holds the all-zero encrypted_balance fails and
\* leaves the sender's and the recipient's account unchanged; the proof
\* verification, whenever it is reached, returns an error and the
\* instruction fails with InvalidProof; when it is not reached the error is
\* InvalidProof (proof length) or that of an earlier check of the handler.
C27_ZeroRecipientRejected ==
    [][(ix'.name \in Transfers /\ NeverDepositedInto(ix'.recipient)) =>
         /\ ix'.err # "Ok"
         /\ accounts'[ix'.sender] = accounts[ix'.sender]
         /\ accounts'[ix'.recipient] = accounts[ix'.recipient]
         /\ ix'.extract # "NotReached" =>
               /\ ix'.err = "InvalidProof"
               /\ ProofRejected(ix')
         /\ ix'.extract = "NotReached" =>
               ix'.err \in {"InvalidProof"} \cup EarlierCheckErrors
      ]_vars

\* a transfer with a well-formed proof, from a funded sender to a recipient
\* that was never deposited into, was rejected: verify_transfer_proof
\* returned InvalidValidityProof and the instruction InvalidProof
C27_Witness ==
    /\ ix.name \in Transfers
    /\ ix.sender # ix.recipient
    /\ NeverDepositedInto(ix.recipient)
    /\ accounts[ix.recipient].version = 0
    /\ accounts[ix.sender].exists
    /\ accounts[ix.sender].encrypted_balance # Zeros(64)
    /\ ix.extract = "Ok"
    /\ ix.verify = "InvalidValidityProof"
    /\ ix.err = "InvalidProof"

\* the instruction recorded in i reads and writes the EncryptedAccount of
\* `key`: the signer's in a deposit or a withdrawal, the sender's and the
\* recipient's in a transfer
Touches(i, key) ==
    \/ /\ i.name \in {"deposit", "withdraw", "deposit_sol", "withdraw_sol"}
       /\ i.sender = key
    \/ /\ i.name \in Transfers
       /\ key \in {i.sender, i.recipient}

\* C29: the version of an EncryptedAccount.  In every step, for every
\* account that exists: the account still exists and its version is not
\* lower than before; if the instruction succeeded and touches the account,
\* the version is exactly one more than before; otherwise the account is
\* unchanged.  After every step, an existing account has version 0 if and
\* only if its encrypted_balance is the all-zero commitment.
C29_VersionCountsUpdates ==
    [][/\ \A k \in Keys :
            accounts[k].exists =>
               /\ accounts'[k].exists
               /\ accounts'[k].version >= accounts[k].version
               /\ IF ix'.err = "Ok" /\ Touches(ix', k)
                  THEN accounts'[k].version = accounts[k].version + 1
                  ELSE accounts'[k] = accounts[k]
       /\ \A k \in Keys :
            accounts'[k].exists =>
               (accounts'[k].version = 0
                   <=> accounts'[k].encrypted_balance = Zeros(64))
      ]_vars

\* a withdraw_sol brought its account to the second version and a non-zero
\* balance, next to an account that is initialized and was never updated
C29_Witness ==
    /\ ix.name = "withdraw_sol"
    /\ ix.err = "Ok"
    /\ accounts[ix.sender].version = 2
    /\ accounts[ix.sender].encrypted_balance # Zeros(64)
    /\ \E k \in Keys \ {ix.sender} :
          /\ accounts[k].exists
          /\ accounts[k].version = 0
          /\ accounts[k].encrypted_balance = Zeros(64)

====
